---- MODULE Spec2Model ----
(***************************************************************************)
(* Model of the legal-document chunking service (src/main.py).             *)
(*                                                                         *)
(* A text is a sequence of atoms.  An atom is a TLA+ string that stands    *)
(* for the literal characters it spells ("article", "5", "."), or for one  *)
(* character that has no ASCII spelling (NBSP, ZWSP, LOCK).  Regular       *)
(* expressions, str.split, str.strip and str.replace of the source are     *)
(* computed on atom sequences the way Python computes them on the          *)
(* characters the atoms spell.                                             *)
(***************************************************************************)
EXTENDS Integers, Sequences, FiniteSets, TLC

VARIABLES
    pc,            \* position of the running call
    raw,           \* the text handed to the running call
    normalized,    \* preprocess_text(raw)
    renormalized,  \* preprocess_text(preprocess_text(raw))
    req,           \* arguments of the chunking call
    std,           \* locals of chunk_standard_content
    tab,           \* locals of chunk_table_content
    tbl,           \* locals of chunk_with_table_handling
    result,        \* value returned (or exception raised) by the call
    content,       \* argument of analyze_quality
    quality,       \* value returned (or exception raised) by analyze_quality
    doc,           \* arguments (text, title, date) of generate_document_id, and
                   \* whether the platform's strftime pads %Y to four digits
    clock,         \* wall clock read by datetime.now()
    ids,           \* ids returned by the successive generate_document_id calls
    label,         \* value returned by classify_content
    http,          \* the ChunkingRequest posted to /chunk
    response,      \* the answer of chunk_document: status and content or detail
    sample,        \* argument of the metadata extractor's method
    sample_type,   \* the document type handed to extract_parties
    extracted,     \* value returned (or exception raised) by that method
    seed_chunk,    \* first argument of get_semantic_overlap
    seed_size,     \* second argument of get_semantic_overlap
    seed,          \* value returned by get_semantic_overlap
    pair,          \* two contents handed to calculate_theme_consistency
    consistency,   \* the values it returns for the two
    calls,         \* the concurrent calls of create_smart_chunks: arguments and results
    frames,        \* the locals of the running calls
    service        \* the fields of the singleton chunking_service

vars == <<pc, raw, normalized, renormalized, req, std, tab, tbl, result,
          content, quality, doc, clock, ids, label, http, response,
          sample, sample_type, extracted, seed_chunk, seed_size, seed,
          pair, consistency, calls, frames, service>>

\* the variables of the scorer and classifier, of the document identifier, of
\* the endpoint, of the metadata extractor and of the overlap seed
scoreVars == <<content, quality, label>>
docVars == <<doc, clock, ids>>
apiVars == <<http, response>>
metaVars == <<sample, sample_type, extracted>>
overlapVars == <<seed_chunk, seed_size, seed>>
themeVars == <<pair, consistency>>
concVars == <<calls, frames, service>>

-----------------------------------------------------------------------------
(* Characters *)

SP   == " "
NL   == "\n"
NBSP == "<U+00A0>"
ZWSP == "<U+200B>"
LOCK == "<U+1F512>"

\* str.isspace() / regex \s on the alphabet: U+200B is not white space
IsSpace(c) == c \in {SP, NL, NBSP}

IsDigit(c) == c = "5"

\* one-character letters of the alphabet ([a-z] under re.IGNORECASE)
IsLetterChar(c) == c = "M"

\* str.lower() of one atom
Lower(c) == CASE c = "Cependant" -> "cependant"
              [] c = "M" -> "m"
              [] c = "Fait" -> "fait"
              [] OTHER -> c

\* number of characters an atom spells
CharLen(c) == IF c \in {NL, NBSP, ZWSP, LOCK} THEN 1 ELSE Len(c)

-----------------------------------------------------------------------------
(* Python string primitives on atom sequences *)

RECURSIVE LStrip(_)
LStrip(t) == IF t # <<>> /\ IsSpace(Head(t)) THEN LStrip(Tail(t)) ELSE t

RECURSIVE RStrip(_)
RStrip(t) == IF t # <<>> /\ IsSpace(t[Len(t)])
             THEN RStrip(SubSeq(t, 1, Len(t) - 1)) ELSE t

\* str.strip()
Strip(t) == RStrip(LStrip(t))

RECURSIVE SplitAcc(_, _)
SplitAcc(t, cur) ==
    IF t = <<>> THEN (IF cur = <<>> THEN <<>> ELSE <<cur>>)
    ELSE IF IsSpace(Head(t))
         THEN (IF cur = <<>> THEN <<>> ELSE <<cur>>) \o SplitAcc(Tail(t), <<>>)
         ELSE SplitAcc(Tail(t), Append(cur, Head(t)))

\* str.split(): the maximal runs of non-space characters
Split(t) == SplitAcc(t, <<>>)

RECURSIVE Join(_, _)
\* sep.join(parts)
Join(sep, parts) ==
    IF parts = <<>> THEN <<>>
    ELSE IF Len(parts) = 1 THEN parts[1]
    ELSE parts[1] \o sep \o Join(sep, Tail(parts))

RECURSIVE SplitLinesAcc(_, _)
SplitLinesAcc(t, cur) ==
    IF t = <<>> THEN <<cur>>
    ELSE IF Head(t) = NL THEN <<cur>> \o SplitLinesAcc(Tail(t), <<>>)
    ELSE SplitLinesAcc(Tail(t), Append(cur, Head(t)))

\* str.split('\n')
SplitLines(t) == SplitLinesAcc(t, <<>>)

\* index of the first position >= i of t that does not satisfy the class
RECURSIVE SkipSpace(_, _)
SkipSpace(t, i) == IF i <= Len(t) /\ IsSpace(t[i]) THEN SkipSpace(t, i + 1) ELSE i

RECURSIVE SkipDigit(_, _)
SkipDigit(t, i) == IF i <= Len(t) /\ IsDigit(t[i]) THEN SkipDigit(t, i + 1) ELSE i

RECURSIVE SkipDigitDash(_, _)
SkipDigitDash(t, i) ==
    IF i <= Len(t) /\ (IsDigit(t[i]) \/ t[i] = "-") THEN SkipDigitDash(t, i + 1) ELSE i

RECURSIVE SkipSpaceComma(_, _)
SkipSpaceComma(t, i) ==
    IF i <= Len(t) /\ (IsSpace(t[i]) \/ t[i] = ",") THEN SkipSpaceComma(t, i + 1) ELSE i

-----------------------------------------------------------------------------
(* Text Normalizer *)

RECURSIVE CollapseSpaces(_)
\* re.sub(r'\s+', ' ', t)
CollapseSpaces(t) ==
    IF t = <<>> THEN <<>>
    ELSE IF IsSpace(Head(t)) THEN <<SP>> \o CollapseSpaces(LStrip(t))
    ELSE <<Head(t)>> \o CollapseSpaces(Tail(t))

\* re.sub(r'[\u00A0\u2000-\u200B\u2028\u2029]', ' ', t)
NormalizeSpecialChars(t) ==
    [i \in 1..Len(t) |-> IF t[i] \in {NBSP, ZWSP} THEN SP ELSE t[i]]

\* article\s+[a-z]?\d+[\-\d]*  matched at i: the first index after the match, 0 if none
ArticleMatchEnd(t, i) ==
    IF ~(i + 1 <= Len(t) /\ Lower(t[i]) = "article" /\ IsSpace(t[i + 1])) THEN 0
    ELSE LET j == SkipSpace(t, i + 1)
             k == IF j <= Len(t) /\ IsLetterChar(t[j]) /\ j + 1 <= Len(t) /\ IsDigit(t[j + 1])
                  THEN j + 1 ELSE j
         IN  IF k <= Len(t) /\ IsDigit(t[k]) THEN SkipDigitDash(t, k) ELSE 0

\* \d+[\s,]*\d*\s*(?:euros?|\u20AC)  matched at i: the first index after the match, 0 if none
AmountMatchEnd(t, i) ==
    IF ~(i <= Len(t) /\ IsDigit(t[i])) THEN 0
    ELSE LET j == SkipSpace(t, SkipDigit(t, SkipSpaceComma(t, SkipDigit(t, i))))
         IN  IF j <= Len(t) /\ Lower(t[j]) = "euros" THEN j + 1 ELSE 0

RECURSIVE MarkArticles(_, _)
\* re.sub(r'(article\s+[a-z]?\d+[\-\d]*)', r'\1<lock>', t, flags=re.IGNORECASE) from i on
MarkArticles(t, i) ==
    IF i > Len(t) THEN <<>>
    ELSE LET e == ArticleMatchEnd(t, i)
         IN  IF e = 0 THEN <<t[i]>> \o MarkArticles(t, i + 1)
             ELSE SubSeq(t, i, e - 1) \o <<LOCK>> \o MarkArticles(t, e)

RECURSIVE MarkAmounts(_, _)
\* re.sub(r'(\d+[\s,]*\d*\s*(?:euros?|\u20AC))', r'\1<lock>', t, flags=re.IGNORECASE) from i on
MarkAmounts(t, i) ==
    IF i > Len(t) THEN <<>>
    ELSE LET e == AmountMatchEnd(t, i)
         IN  IF e = 0 THEN <<t[i]>> \o MarkAmounts(t, i + 1)
             ELSE SubSeq(t, i, e - 1) \o <<LOCK>> \o MarkAmounts(t, e)

protect_legal_structures(t) == MarkAmounts(MarkArticles(t, 1), 1)

preprocess_text(t) ==
    protect_legal_structures(NormalizeSpecialChars(CollapseSpaces(Strip(t))))

-----------------------------------------------------------------------------
(* Entity Extractor: for each entity kind, whether extract_entities finds a  *)
(* match.  Over the alphabet only the patterns modelled below can match; the *)
(* other patterns need words the alphabet does not spell.                    *)

IsDateSep(c) == c \in {".", "-"}

DigitsAt(t, i, n) == i + n - 1 <= Len(t) /\ \A k \in i..(i + n - 1) : IsDigit(t[k])

\* \d{1,2}[\/\-\.]\d{1,2}[\/\-\.]\d{2,4}
DateMatchAt(t, i) ==
    \E n1 \in {1, 2}, n2 \in {1, 2} :
        /\ DigitsAt(t, i, n1)
        /\ i + n1 <= Len(t) /\ IsDateSep(t[i + n1])
        /\ DigitsAt(t, i + n1 + 1, n2)
        /\ i + n1 + 1 + n2 <= Len(t) /\ IsDateSep(t[i + n1 + 1 + n2])
        /\ DigitsAt(t, i + n1 + n2 + 2, 2)

\* \d+[\.,]?\d*\s*(?:ml?|...) under re.IGNORECASE
MeasureMatchAt(t, i) ==
    /\ i <= Len(t) /\ IsDigit(t[i])
    /\ LET j1 == SkipDigit(t, i)
           j2 == IF j1 <= Len(t) /\ t[j1] \in {".", ","} THEN j1 + 1 ELSE j1
           j4 == SkipSpace(t, SkipDigit(t, j2))
       IN  j4 <= Len(t) /\ Lower(t[j4]) = "m"

extract_entities(t) ==
    [dates              |-> \E i \in 1..Len(t) : DateMatchAt(t, i),
     monetary_amounts   |-> \E i \in 1..Len(t) : AmountMatchEnd(t, i) # 0,
     legal_references   |-> \E i \in 1..Len(t) : ArticleMatchEnd(t, i) # 0,
     measurements       |-> \E i \in 1..Len(t) : MeasureMatchAt(t, i),
     norms_standards    |-> FALSE,
     materials          |-> FALSE,
     technical_specs    |-> FALSE,
     real_estate_actors |-> FALSE,
     insurance_terms    |-> FALSE,
     deadlines          |-> FALSE,
     penalties          |-> FALSE]

-----------------------------------------------------------------------------
(* Quality Scorer.  Factors are fixed-point numbers in millionths (Unit is   *)
(* 1.0); the returned score is in thousandths, as round(score, 3) leaves it. *)

Unit == 1000000

Min(a, b) == IF a <= b THEN a ELSE b
Max(a, b) == IF a >= b THEN a ELSE b
Abs(a) == IF a >= 0 THEN a ELSE 0 - a

\* the outcome of a call: the value it returns, or the exception it raises
Return(v) == [raised |-> FALSE, value |-> v]
Raise(e) == [raised |-> TRUE, value |-> e]

ZeroDivisionError == "ZeroDivisionError"
TypeError == "TypeError"
KeyError == "KeyError"

RECURSIVE SumSeq(_)
SumSeq(s) == IF s = <<>> THEN 0 ELSE Head(s) + SumSeq(Tail(s))

\* str.lower() of a word; len(word)
LowerWord(w) == [i \in 1..Len(w) |-> Lower(w[i])]
WordLen(w) == SumSeq([i \in 1..Len(w) |-> CharLen(w[i])])

\* keyword in content.lower(): no keyword of the source spans two atoms or is a
\* proper part of one
Contains(t, keyword) == \E i \in 1..Len(t) : Lower(t[i]) = keyword

CountIn(t, keywords) == Cardinality({k \in keywords : Contains(t, k)})

\* weighted_keywords.get(word.lower(), 0)
weighted_keywords(w) ==
    IF Len(w) # 1 THEN 0
    ELSE CASE Lower(w[1]) \in {"contrat", "prix", "délai", "garantie", "obligation"} -> 3
           [] Lower(w[1]) \in {"article", "clause", "conditions", "responsabilité",
                               "livraison", "paiement", "travaux", "entreprise"} -> 2
           [] Lower(w[1]) \in {"partie", "engagement", "modalité", "échéance",
                               "conformité", "exécution", "réception", "achevements"} -> 1
           [] OTHER -> 0

themes ==
    << {"contrat", "clause", "obligation", "engagement", "accord"},
       {"prix", "coût", "montant", "paiement", "facture", "devis"},
       {"délai", "livraison", "échéance", "planning", "durée"},
       {"travaux", "construction", "matériaux", "norme", "qualité"},
       {"responsabilité", "garantie", "assurance", "droit", "loi"} >>

\* max() of a list of counts, 0 for the empty list
MaxSeq(s) == CHOOSE m \in {s[k] : k \in DOMAIN s} \cup {0} : \A k \in DOMAIN s : m >= s[k]

\* the value calculate_theme_consistency returns for a dominant-theme count
\* max_score out of total_score hits
ThemeScore(max_score, total_score) ==
    IF total_score = 0 THEN Unit \div 2
    ELSE LET theme_dominance == (max_score * Unit) \div total_score
             off == Abs(theme_dominance - Unit \div 2)
         IN  IF 3 * total_score <= 10 * max_score /\ 10 * max_score <= 7 * total_score
             THEN Min(Unit, (8 * Unit) \div 10 + ((Unit - off) * 4) \div 10)
             ELSE Max((3 * Unit) \div 10, (8 * Unit) \div 10 - off)

calculate_theme_consistency(t) ==
    LET theme_scores == [k \in 1..Len(themes) |-> CountIn(t, themes[k])]
    IN  ThemeScore(MaxSeq(theme_scores), SumSeq(theme_scores))

connectors ==
    {"et", "ou", "mais", "donc", "car", "ainsi", "alors", "cependant",
     "toutefois", "néanmoins", "par conséquent", "en effet", "de plus",
     "en outre", "notamment", "c'est-à-dire", "autrement dit"}

\* round(x, 3) of a value in millionths, kept in millionths
Round3(x) == ((x + 500) \div 1000) * 1000

calculate_semantic_coherence(t, words) ==
    IF Len(words) < 10 THEN Return(Unit \div 2)
    ELSE LET long == {i \in 1..Len(words) : WordLen(words[i]) > 3}
             unique_words == {LowerWord(words[i]) : i \in long}
         IN  IF Cardinality(long) = 0 THEN Raise(ZeroDivisionError)
             ELSE LET repetition_factor ==
                          Min(Unit, (2 * Cardinality(unique_words) * Unit) \div Cardinality(long))
                      connector_factor ==
                          Min(Unit, (6 * Unit) \div 10
                                    + (CountIn(t, connectors) * 10 * Unit) \div Len(Split(t)))
                  IN  Return(Round3((repetition_factor + connector_factor
                                     + calculate_theme_consistency(t)) \div 3))

real_estate_terms ==
    {"construction", "bâtiment", "immeuble", "logement", "terrain", "permis",
     "urbanisme", "maître d'ouvrage", "architecte", "entrepreneur", "chantier",
     "réception", "livraison", "conformité"}

B2N(b) == IF b THEN 1 ELSE 0

\* [;:]\s*(?:\n|$)
HasEnumeration(t) ==
    \E i \in 1..Len(t) :
        /\ t[i] \in {";", ":"}
        /\ LET j == SkipSpace(t, i + 1)
           IN  \/ j > Len(t)
               \/ \E k \in (i + 1)..(j - 1) : t[k] = NL

\* entity_score of analyze_quality, from the entities found
EntityScore(entities) ==
      15 * B2N(entities.dates) + 10 * B2N(entities.deadlines)
    + 20 * B2N(entities.monetary_amounts) + 15 * B2N(entities.legal_references)
    + 10 * B2N(entities.measurements \/ entities.technical_specs)
    + 10 * B2N(entities.real_estate_actors \/ entities.insurance_terms)
    + 10 * B2N(entities.norms_standards)

\* structure_score of analyze_quality, from the number of sentence ends
StructureScore(t, complete_sentences) ==
    Min(Unit, Min(Unit, (complete_sentences * Unit) \div 2)
              + (Unit \div 10) * (B2N(HasEnumeration(t))
                                  + B2N(\E i \in 1..Len(Strip(t)) : Strip(t)[i] = NL)
                                  + B2N(complete_sentences > 0)))

\* length_score of analyze_quality: optimal_length is 55, length_variance 25
LengthScore(word_count) ==
    Max((3 * Unit) \div 10,
        Unit - (word_count - 55) * (word_count - 55) * (Unit \div 1250))

\* keyword_density of analyze_quality
KeywordScore(words) ==
    Min(Unit, (SumSeq([i \in 1..Len(words) |-> weighted_keywords(words[i])]) * 10 * Unit)
              \div Max(6 * Len(words), 10))

\* the six factors of analyze_quality, before weighting (coherence is the outcome
\* of calculate_semantic_coherence); words is content.split()
FactorsOf(t, words) ==
    [length      |-> LengthScore(Len(words)),
     keyword     |-> KeywordScore(words),
     entity      |-> Min(Unit, (40 + EntityScore(extract_entities(t))) * (Unit \div 100)),
     structure   |-> StructureScore(t, Cardinality({i \in 1..Len(t) : t[i] = "."})),
     coherence   |-> calculate_semantic_coherence(t, words),
     specificity |-> Min(Unit, (7 * Unit) \div 10
                               + (CountIn(t, real_estate_terms) * 3 * Unit) \div 140)]

QualityFactors(t) == FactorsOf(t, Split(t))

\* the weights of the six factors, in hundredths
QualityWeights ==
    [length |-> 25, keyword |-> 20, entity |-> 25, structure |-> 15,
     coherence |-> 10, specificity |-> 5]

\* the weighted sum of the factors, rounded to thousandths, or the exception
WeightedScore(f, w) ==
    IF f.coherence.raised THEN f.coherence
    ELSE Return((Min(Unit, (  w.length * f.length + w.keyword * f.keyword
                            + w.entity * f.entity + w.structure * f.structure
                            + w.coherence * f.coherence.value
                            + w.specificity * f.specificity) \div 100) + 500) \div 1000)

\* the outcome of analyze_quality: the score in thousandths, or the exception
analyze_quality(t) == WeightedScore(QualityFactors(t), QualityWeights)

-----------------------------------------------------------------------------
(* Content Classifier.  A score of the source is (keyword_score +            *)
(* pattern_score * 1.5) * weight; the model keeps twenty times that, an      *)
(* integer, with the weight in tenths.                                       *)

\* the categories of classify_content in the order of the dictionary; among
\* the patterns, those made of one word, white space and a second word (or \w+)
weighted_categories ==
    << [name |-> "financial", weight |-> 12,
        keywords |-> {"prix", "coût", "tarif", "montant", "euros", "€", "facture", "paiement",
                      "acompte", "devis", "budget", "tva", "ht", "ttc"},
        patterns |-> {}],
       [name |-> "timeline", weight |-> 11,
        keywords |-> {"délai", "livraison", "échéance", "date", "planning", "durée", "terme",
                      "calendrier", "programmation"},
        patterns |-> {<<"avant", "le">>}],
       [name |-> "obligations", weight |-> 13,
        keywords |-> {"obligation", "engage", "doit", "responsabilité", "devoir", "tenu",
                      "charge", "incombe"},
        patterns |-> {}],
       [name |-> "guarantees", weight |-> 12,
        keywords |-> {"garantie", "assurance", "caution", "couverture", "protection",
                      "décennale", "dommages-ouvrage"},
        patterns |-> {<<"garantie", "de">>, <<"assurance", "\\w+">>, <<"caution", "de">>}],
       [name |-> "technical_requirements", weight |-> 11,
        keywords |-> {"technique", "norme", "spécification", "matériau", "DTU", "performance",
                      "qualité", "conformité", "résistance"},
        patterns |-> {<<"conforme", "à">>}],
       [name |-> "conditions", weight |-> 10,
        keywords |-> {"condition", "clause", "modalité", "stipulation", "disposition", "si",
                      "sous\\sréserve", "sauf"},
        patterns |-> {<<"sous", "condition">>, <<"sous", "réserve">>, <<"si", "\\w+">>,
                      <<"sauf", "\\w+">>}],
       [name |-> "quality_control", weight |-> 10,
        keywords |-> {"contrôle", "vérification", "test", "essai", "conformité", "inspection",
                      "validation"},
        patterns |-> {<<"contrôle", "de">>, <<"vérification", "de">>}],
       [name |-> "safety_security", weight |-> 10,
        keywords |-> {"sécurité", "protection", "risque", "danger", "prévention", "accident",
                      "sps", "epi"},
        patterns |-> {}],
       [name |-> "administrative", weight |-> 9,
        keywords |-> {"autorisation", "permis", "déclaration", "formalité", "procédure",
                      "dossier"},
        patterns |-> {<<"permis", "de">>, <<"autorisation", "de">>, <<"déclaration", "de">>}],
       [name |-> "insurance", weight |-> 11,
        keywords |-> {"assurance", "assureur", "sinistre", "indemnisation", "prime",
                      "franchise"},
        patterns |-> {}],
       [name |-> "penalties", weight |-> 12,
        keywords |-> {"pénalité", "amende", "sanction", "dommages-intérêts", "astreinte",
                      "indemnité"},
        patterns |-> {}] >>

\* regex \w at the start of an atom
IsWordAtom(c) ==
    c \notin {SP, NL, NBSP, ZWSP, LOCK, ".", ",", ";", ":", "|", "-", "/", "!", "?"}

RECURSIVE SkipWord(_, _)
SkipWord(t, i) == IF i <= Len(t) /\ IsWordAtom(t[i]) THEN SkipWord(t, i + 1) ELSE i

\* first\s+second matched at i in content_lower: the first index after the
\* match, 0 if none
PairMatchEnd(t, i, pattern) ==
    IF ~(i + 1 <= Len(t) /\ Lower(t[i]) = pattern[1] /\ IsSpace(t[i + 1])) THEN 0
    ELSE IF SkipSpace(t, i + 1) > Len(t) THEN 0
    ELSE IF pattern[2] = "\\w+"
         THEN (IF IsWordAtom(t[SkipSpace(t, i + 1)]) THEN SkipWord(t, SkipSpace(t, i + 1)) ELSE 0)
         ELSE (IF Lower(t[SkipSpace(t, i + 1)]) = pattern[2] THEN SkipSpace(t, i + 1) + 1 ELSE 0)

RECURSIVE CountPairs(_, _, _)
\* len(re.findall(pattern, content_lower)) from i on: matches do not overlap
CountPairs(t, i, pattern) ==
    IF i > Len(t) THEN 0
    ELSE IF PairMatchEnd(t, i, pattern) = 0 THEN CountPairs(t, i + 1, pattern)
    ELSE 1 + CountPairs(t, PairMatchEnd(t, i, pattern), pattern)

RECURSIVE CountAmounts(_, _)
\* len(re.findall(r'\d+[\s,]*\d*\s*(?:euros?|€)', content_lower)) from i on
CountAmounts(t, i) ==
    IF i > Len(t) THEN 0
    ELSE IF AmountMatchEnd(t, i) = 0 THEN CountAmounts(t, i + 1)
    ELSE 1 + CountAmounts(t, AmountMatchEnd(t, i))

RECURSIVE SumOver(_, _)
\* sum(len(re.findall(pattern, content_lower)) for pattern in patterns)
SumOver(t, patterns) ==
    IF patterns = {} THEN 0
    ELSE LET p == CHOOSE x \in patterns : TRUE
         IN  CountPairs(t, 1, p) + SumOver(t, patterns \ {p})

PatternScore(t, data) ==
    SumOver(t, data.patterns)
        + (IF data.name = "financial" THEN CountAmounts(t, 1) ELSE 0)

\* twenty times total_score
CategoryScore(t, data) == (2 * CountIn(t, data.keywords) + 3 * PatternScore(t, data)) * data.weight

\* twenty times the confidence threshold 1.5
ConfidenceThreshold == 30

\* the last key whose score is the largest
LastBest(scores, k) ==
    CHOOSE j \in k..Len(scores) :
        scores[j] = MaxSeq(scores) /\ \A i \in (j + 1)..Len(scores) : scores[i] < scores[j]

RECURSIVE FirstBest(_, _)
\* max(scores, key=scores.get): the first key, in the order of insertion, whose
\* score is the largest
FirstBest(scores, k) == IF scores[k] = MaxSeq(scores) THEN k ELSE FirstBest(scores, k + 1)

BestCategory(scores) ==
    IF MaxSeq(scores) >= ConfidenceThreshold
    THEN weighted_categories[FirstBest(scores, 1)].name
    ELSE "general"

classify_content(t) ==
    BestCategory([k \in 1..Len(weighted_categories) |-> CategoryScore(t, weighted_categories[k])])

\* the keyword lists of get_classification_scores
categories ==
    [obligations            |-> {"obligation", "engage", "doit", "responsabilité"},
     conditions             |-> {"condition", "clause", "modalité", "si"},
     financial              |-> {"prix", "coût", "euros", "€", "montant"},
     timeline               |-> {"délai", "date", "échéance", "livraison"},
     guarantees             |-> {"garantie", "assurance", "caution"},
     technical_requirements |-> {"technique", "norme", "spécification"},
     quality_control        |-> {"contrôle", "vérification", "test"},
     safety_security        |-> {"sécurité", "protection", "risque"},
     administrative         |-> {"autorisation", "permis", "déclaration"},
     definitions            |-> {"définition", "signifie", "désigne"},
     procedures             |-> {"procédure", "méthode", "étape"}]

\* the secondary scorer: the number of keywords of each category in the content
get_classification_scores(t) == [c \in DOMAIN categories |-> CountIn(t, categories[c])]

-----------------------------------------------------------------------------
(* Chunk Factory *)

None == "None"

RECURSIVE Digits(_)
\* the decimal digits of n >= 0
Digits(n) == IF n < 10 THEN <<n>> ELSE Append(Digits(n \div 10), n % 10)

\* zero-padding to a minimum width, as the format {n:0<width>d} and str.zfill do
ZeroPad(ds, width) ==
    IF Len(ds) >= width THEN ds ELSE [i \in 1..(width - Len(ds)) |-> 0] \o ds

\* f'chunk_{chunk_id:03d}'
ChunkLabel(n) == <<"chunk_">> \o ZeroPad(Digits(n), 3)

\* len(content)
CharCount(t) == SumSeq([i \in 1..Len(t) |-> CharLen(t[i])])

RECURSIVE TitleEnd(_, _)
\* [^\n.]* from i on: the first index it does not match
TitleEnd(t, i) == IF i <= Len(t) /\ t[i] \notin {NL, "."} THEN TitleEnd(t, i + 1) ELSE i

\* article\s+\d+ matched at i (re.IGNORECASE)
ArticleTitleAt(t, i) ==
    /\ i + 1 <= Len(t) /\ Lower(t[i]) = "article" /\ IsSpace(t[i + 1])
    /\ SkipSpace(t, i + 1) <= Len(t) /\ IsDigit(t[SkipSpace(t, i + 1)])

\* clause\s+ matched at i (re.IGNORECASE)
ClauseTitleAt(t, i) == i + 1 <= Len(t) /\ Lower(t[i]) = "clause" /\ IsSpace(t[i + 1])

\* re.split(r'[.!?]+', content)[0]
FirstSentence(t) == SubSeq(t, 1, (CHOOSE i \in 1..(Len(t) + 1) :
                                     /\ i = Len(t) + 1 \/ t[i] \in {".", "!", "?"}
                                     /\ \A k \in 1..(i - 1) : t[k] \notin {".", "!", "?"}) - 1)

MaxTitleLen == 80

DefaultTitle == <<"Clause contractuelle">>

FirstSentenceTitle(first) == IF CharCount(first) < MaxTitleLen THEN Strip(first) ELSE DefaultTitle

get_title(t) ==
    IF \E i \in 1..Len(t) : ArticleTitleAt(t, i)
    THEN LET i == CHOOSE i \in 1..Len(t) :
                      ArticleTitleAt(t, i) /\ \A k \in 1..(i - 1) : ~ArticleTitleAt(t, k)
         IN  Strip(SubSeq(t, i, TitleEnd(t, SkipDigit(t, SkipSpace(t, i + 1))) - 1))
    ELSE IF \E i \in 1..Len(t) : ClauseTitleAt(t, i)
    THEN LET i == CHOOSE i \in 1..Len(t) :
                      ClauseTitleAt(t, i) /\ \A k \in 1..(i - 1) : ~ClauseTitleAt(t, k)
         IN  Strip(SubSeq(t, i, TitleEnd(t, SkipSpace(t, i + 1)) - 1))
    ELSE FirstSentenceTitle(FirstSentence(t))

\* the words of extract_key_elements in the order of the dictionary
priority_words ==
    << [word |-> "contrat", priority |-> 3], [word |-> "prix", priority |-> 3],
       [word |-> "délai", priority |-> 3], [word |-> "garantie", priority |-> 3],
       [word |-> "obligation", priority |-> 2], [word |-> "clause", priority |-> 2],
       [word |-> "article", priority |-> 2], [word |-> "conditions", priority |-> 2],
       [word |-> "paiement", priority |-> 2], [word |-> "livraison", priority |-> 2],
       [word |-> "responsabilité", priority |-> 2], [word |-> "assurance", priority |-> 1],
       [word |-> "modalité", priority |-> 1], [word |-> "échéance", priority |-> 1] >>

MaxKeyElements == 5

\* word_scores.sort(key=lambda x: x[1], reverse=True): the sort is stable
SortByPriority(word_scores) ==
    SelectSeq(word_scores, LAMBDA x : x.priority = 3)
        \o SelectSeq(word_scores, LAMBDA x : x.priority = 2)
        \o SelectSeq(word_scores, LAMBDA x : x.priority = 1)

KeyWords(sorted) == [k \in 1..Min(Len(sorted), MaxKeyElements) |-> sorted[k].word]

extract_key_elements(t) ==
    KeyWords(SortByPriority(SelectSeq(priority_words, LAMBDA x : Contains(t, x.word))))

\* the outcome of create_chunk: the chunk, or the exception analyze_quality
\* raised; entities holds, for each kind, whether its list is not empty
ChunkOf(quality_score, chunk_content, chunk_id, user_id, project_id) ==
    IF quality_score.raised THEN quality_score
    ELSE Return([content   |-> [text     |-> chunk_content,
                                chunk_id |-> ChunkLabel(chunk_id)],
                 metadata  |-> [word_count         |-> Len(Split(chunk_content)),
                                char_count         |-> CharCount(chunk_content),
                                position           |-> chunk_id,
                                content_type       |-> classify_content(chunk_content),
                                quality_score      |-> quality_score.value,
                                entities           |-> extract_entities(chunk_content),
                                hierarchical_title |-> get_title(chunk_content),
                                key_elements       |-> extract_key_elements(chunk_content)],
                 userId    |-> user_id,
                 projectId |-> project_id])

create_chunk(chunk_content, chunk_id, user_id, project_id) ==
    ChunkOf(analyze_quality(chunk_content), chunk_content, chunk_id, user_id, project_id)

-----------------------------------------------------------------------------
(* Sentence Segmenter *)

\* protected_text.replace(abbr, abbr.replace('.', LOCK)) for the abbreviations the
\* alphabet spells: 'M.'
ProtectAbbreviations(t) ==
    [i \in 1..Len(t) |-> IF t[i] = "." /\ i > 1 /\ t[i - 1] = "M" THEN LOCK ELSE t[i]]

RECURSIVE SplitSentencesAcc(_, _, _)
SplitSentencesAcc(t, i, cur) ==
    IF i > Len(t) THEN <<cur>>
    ELSE IF IsSpace(t[i]) /\ i > 1 /\ t[i - 1] = "."
         THEN <<cur>> \o SplitSentencesAcc(t, SkipSpace(t, i), <<>>)
         ELSE SplitSentencesAcc(t, i + 1, Append(cur, t[i]))

\* re.split(r'(?<=[.!?])\s+', t)
SplitSentences(t) == SplitSentencesAcc(t, 1, <<>>)

\* s.replace(LOCK, '.')
RestoreDots(s) == [i \in 1..Len(s) |-> IF s[i] = LOCK THEN "." ELSE s[i]]

RECURSIVE SplitClausesAcc(_, _, _)
SplitClausesAcc(t, i, cur) ==
    IF i > Len(t) THEN <<cur>>
    ELSE IF IsSpace(t[i]) /\ i > 1 /\ t[i - 1] \in {".", ";", ":"}
         THEN <<cur>> \o SplitClausesAcc(t, SkipSpace(t, i), <<>>)
         ELSE SplitClausesAcc(t, i + 1, Append(cur, t[i]))

\* the split with the semicolon and the colon among the sentence ends
clause_split(t) ==
    LET sentences == SplitClausesAcc(ProtectAbbreviations(t), 1, <<>>)
    IN  [k \in 1..Len(sentences) |-> RestoreDots(sentences[k])]

smart_sentence_split(t) ==
    LET sentences == SplitSentences(ProtectAbbreviations(t))
    IN  [k \in 1..Len(sentences) |-> RestoreDots(sentences[k])]

-----------------------------------------------------------------------------
(* Chunk Builder, standard path *)

conjunctions ==
    {"et", "ou", "mais", "donc", "car", "ainsi", "alors", "cependant",
     "toutefois", "néanmoins"}

\* the last n items of a list: lst[-n:] for n > 0
LastN(lst, n) == IF Len(lst) <= n THEN lst ELSE SubSeq(lst, Len(lst) - n + 1, Len(lst))

\* next_sentence.strip().split()[0].lower() in conjunctions
StartsWithConjunction(next_sentence) ==
    LET ws == Split(Strip(next_sentence))
    IN  ws # <<>> /\ Len(ws[1]) = 1 /\ Lower(ws[1][1]) \in conjunctions

\* re.search(r'[;:]\s*$', ' '.join(current_chunk[-10:]))
EndsMidEnumeration(current_chunk) ==
    LET last_chunk_text == RStrip(Join(<<SP>>, LastN(current_chunk, 10)))
    IN  last_chunk_text # <<>> /\ last_chunk_text[Len(last_chunk_text)] \in {";", ":"}

can_split_here(next_sentence, current_chunk) ==
    IF current_chunk = <<>> THEN TRUE
    ELSE IF StartsWithConjunction(next_sentence) THEN FALSE
    ELSE IF EndsMidEnumeration(current_chunk) THEN FALSE
    ELSE TRUE

\* the literal last words of the chunk, whatever its sentences
literal_overlap(current_chunk, overlap_size) ==
    IF overlap_size = 0 \/ current_chunk = <<>> THEN <<>>
    ELSE LastN(current_chunk, overlap_size)

get_semantic_overlap(current_chunk, overlap_size) ==
    IF overlap_size = 0 \/ current_chunk = <<>> THEN <<>>
    ELSE LET sentences == SplitSentences(Join(<<SP>>, current_chunk))
             last == Split(sentences[Len(sentences)])
         IN  IF Len(last) <= overlap_size THEN last
             ELSE IF Len(current_chunk) >= overlap_size
                  THEN LastN(current_chunk, overlap_size)
                  ELSE current_chunk

\* the locals of chunk_standard_content on entry
StdEnter(text, target_size, overlap_size, start_id, user_id, project_id, caller) ==
    [target_size |-> target_size, overlap |-> overlap_size,
     user_id |-> user_id, project_id |-> project_id, caller |-> caller,
     sentences |-> smart_sentence_split(text), i |-> 1,
     current_chunk |-> <<>>, current_word_count |-> 0,
     chunk_id |-> start_id, chunks |-> <<>>, raised |-> FALSE]

\* the test that closes the current chunk before the sentence
MustClose(f, sentence) ==
    /\ f.current_word_count + Len(Split(sentence)) > f.target_size
    /\ f.current_chunk # <<>>
    /\ can_split_here(sentence, f.current_chunk)

\* one iteration of the loop over the sentences
\* chunks.append(chunk), unless create_chunk raised
StdAppend(f, chunk) ==
    IF chunk.raised THEN [f EXCEPT !.raised = TRUE]
    ELSE [f EXCEPT !.chunks = Append(@, chunk.value)]

\* current_chunk.extend(overlap_words + sentence_words): the closed chunk kept
StdCloseKeeping(f, next_chunk) ==
    [f EXCEPT !.current_chunk = @ \o next_chunk,
              !.current_word_count = Len(f.current_chunk) + Len(next_chunk),
              !.chunk_id = @ + 1,
              !.i = @ + 1]

\* the chunk closed, the next one started from the overlap and the sentence
StdClose(f, next_chunk) ==
    [f EXCEPT !.current_chunk = next_chunk,
              !.current_word_count = Len(next_chunk),
              !.chunk_id = @ + 1,
              !.i = @ + 1]

\* the sentence added to the current chunk
StdExtend(f, sentence_words) ==
    [f EXCEPT !.current_chunk = @ \o sentence_words,
              !.current_word_count = @ + Len(sentence_words),
              !.i = @ + 1]

\* one iteration of the loop over the sentences
StdSentenceStep(f, sentence) ==
    IF Strip(sentence) = <<>> THEN [f EXCEPT !.i = @ + 1]
    ELSE IF MustClose(f, sentence)
    THEN StdAppend(StdClose(f, get_semantic_overlap(f.current_chunk, f.overlap)
                               \o Split(sentence)),
                   create_chunk(Join(<<SP>>, f.current_chunk), f.chunk_id,
                                f.user_id, f.project_id))
    ELSE StdExtend(f, Split(sentence))

StdIterate(f) == StdSentenceStep(f, f.sentences[f.i])

\* the final chunk, after the loop
StdFinish(f) ==
    IF f.current_chunk = <<>> THEN f
    ELSE StdAppend(f, create_chunk(Join(<<SP>>, f.current_chunk), f.chunk_id,
                                   f.user_id, f.project_id))

-----------------------------------------------------------------------------
(* Chunk Builder, table-aware path *)

HasPipe(t) == \E i \in 1..Len(t) : t[i] = "|"

CountPipes(t) == Cardinality({i \in 1..Len(t) : t[i] = "|"})

\* re.match(r'^\s*[-:]+\s*$', line)
IsRuleLine(line) ==
    LET body == Strip(line)
    IN  body # <<>> /\ \A i \in 1..Len(body) : body[i] \in {"-", ":"}

\* index of the first '|' of t at or after i, 0 if none
RECURSIVE NextPipe(_, _)
NextPipe(t, i) ==
    IF i > Len(t) THEN 0 ELSE IF t[i] = "|" THEN i ELSE NextPipe(t, i + 1)

\* re.finditer(r'(\|[^|]*\|[^|]*\|)', t) from i on: the <<start, end>> of the matches
RECURSIVE TableMatches(_, _)
TableMatches(t, i) ==
    LET a == NextPipe(t, i)
        b == IF a = 0 THEN 0 ELSE NextPipe(t, a + 1)
        c == IF b = 0 THEN 0 ELSE NextPipe(t, b + 1)
    IN  IF c = 0 THEN <<>> ELSE <<<<a, c>>>> \o TableMatches(t, c + 1)

\* the number of leading lines the loop of find_table_end accepts
RECURSIVE TableLineCount(_)
TableLineCount(lines) ==
    IF lines = <<>> THEN 0
    ELSE LET line == Head(lines)
         IN  IF ~HasPipe(line) /\ Strip(line) # <<>> /\ ~IsRuleLine(line) THEN 0
             ELSE 1 + TableLineCount(Tail(lines))

\* find_table_end with 1-based start: the index of the last character of the table
find_table_end(t, start) ==
    LET lines == SplitLines(SubSeq(t, start, Len(t)))
        end_line == TableLineCount(lines)
    IN  start - 1 + Len(Join(<<NL>>, SubSeq(lines, 1, end_line)))

\* the loop of split_by_tables over the matches; last_end is the index of the
\* last character already placed in a section
RECURSIVE SectionsFrom(_, _, _)
SectionsFrom(t, matches, last_end) ==
    IF matches = <<>>
    THEN (IF last_end < Len(t) THEN <<SubSeq(t, last_end + 1, Len(t))>> ELSE <<>>)
    ELSE LET table_start == Head(matches)[1]
             table_end == find_table_end(t, table_start)
             before == IF table_start - 1 > last_end
                       THEN <<SubSeq(t, last_end + 1, table_start - 1)>> ELSE <<>>
         IN  before \o <<SubSeq(t, table_start, table_end)>>
                    \o SectionsFrom(t, Tail(matches), table_end)

\* [s.strip() for s in sections if s.strip()]
StripNonEmpty(sections) ==
    LET stripped == [k \in 1..Len(sections) |-> Strip(sections[k])]
    IN  SelectSeq(stripped, LAMBDA x : x # <<>>)

split_by_tables(t) == StripNonEmpty(SectionsFrom(t, TableMatches(t, 1), 0))

is_table_content(section) == HasPipe(section) /\ CountPipes(section) >= 4

\* the locals of chunk_table_content on entry; the variable header is bound
\* ('header' in locals()) exactly when header_processed is set
TabEnter(table_text, start_id, user_id, project_id, caller) ==
    [user_id |-> user_id, project_id |-> project_id, caller |-> caller,
     lines |-> SplitLines(Strip(table_text)), i |-> 1,
     current_group |-> <<>>, header_processed |-> FALSE, header |-> <<>>,
     chunks |-> <<>>, start_id |-> start_id, raised |-> FALSE]

\* chunks.append(chunk), unless create_chunk raised
TabAppend(g, chunk) ==
    IF chunk.raised THEN [g EXCEPT !.raised = TRUE]
    ELSE [g EXCEPT !.chunks = Append(@, chunk.value)]

\* start_id += len(current_group) once a group is emitted
TabDataLineByLines(g, group) ==
    IF Len(group) >= 4
    THEN TabAppend([g EXCEPT !.current_group =
                                 IF g.header_processed THEN <<g.header>> ELSE <<>>,
                             !.start_id = @ + Len(group),
                             !.i = @ + 1],
                   create_chunk(Join(<<NL>>, group), g.start_id, None, None))
    ELSE [g EXCEPT !.current_group = group, !.i = @ + 1]

\* a data line: the group is emitted once it holds 4 lines, header and separator
\* included, and the next group restarts from the header
TabDataLine(g, group) ==
    IF Len(group) >= 4
    THEN TabAppend([g EXCEPT !.current_group =
                                 IF g.header_processed THEN <<g.header>> ELSE <<>>,
                             !.start_id = @ + 1,
                             !.i = @ + 1],
                   create_chunk(Join(<<NL>>, group), g.start_id, None, None))
    ELSE [g EXCEPT !.current_group = group, !.i = @ + 1]

\* one iteration of the loop over the lines
TabLineStep(g, line) ==
    IF line = <<>> THEN [g EXCEPT !.i = @ + 1]
    ELSE IF ~g.header_processed /\ HasPipe(line) /\ ~IsRuleLine(line)
    THEN [g EXCEPT !.header = line, !.header_processed = TRUE,
                   !.current_group = Append(@, line), !.i = @ + 1]
    ELSE IF IsRuleLine(line)
    THEN [g EXCEPT !.current_group = Append(@, line), !.i = @ + 1]
    ELSE TabDataLine(g, Append(g.current_group, line))

TabIterate(g) == TabLineStep(g, Strip(g.lines[g.i]))

\* the final chunk, after the loop
TabFinish(g) ==
    IF Len(g.current_group) > 1
    THEN TabAppend(g, create_chunk(Join(<<NL>>, g.current_group), g.start_id, None, None))
    ELSE g

-----------------------------------------------------------------------------
(* Structure Classifier *)

detect_special_structures(t) == [has_tables |-> HasPipe(t)]

\* the keyword alternations of classify_global_content
global_patterns ==
    << {"prix", "coût", "euros", "euro", "€", "montant", "facture", "paiement", "devis"},
       {"technique", "norme", "spécification", "matériau", "dtu", "performance", "qualité"},
       {"obligation", "engage", "doit", "responsabilité", "devoir", "tenu"},
       {"délai", "livraison", "échéance", "date", "planning", "durée"},
       {"article", "décret", "loi", "code", "référence"} >>

global_categories ==
    <<"financial", "technical_requirements", "obligations", "timeline", "legal_references">>

\* len(re.findall(pattern, text_lower)): the atoms that spell a keyword
CountMatches(t, keywords) == Cardinality({i \in 1..Len(t) : Lower(t[i]) \in keywords})

\* max(scores, key=scores.get): the first category with the highest count
RECURSIVE FirstMax(_, _)
FirstMax(scores, k) == IF scores[k] = MaxSeq(scores) THEN k ELSE FirstMax(scores, k + 1)

classify_global_content(t) ==
    LET category_scores ==
            [k \in 1..Len(global_patterns) |-> CountMatches(t, global_patterns[k])]
    IN  IF MaxSeq(category_scores) = 0 THEN "general"
        ELSE global_categories[FirstMax(category_scores, 1)]

calculate_adaptive_size(t, base_size) ==
    LET content_type == classify_global_content(t)
    IN  CASE content_type = "financial" -> base_size + 10
          [] content_type = "technical_requirements" -> base_size + 15
          [] content_type = "obligations" -> base_size - 5
          [] content_type = "timeline" -> base_size
          [] content_type = "legal_references" -> base_size - 10
          [] OTHER -> base_size

-----------------------------------------------------------------------------
(* Document Identifier.  A date, a text and a title are sequences of          *)
(* characters; an id is a sequence of decimal digits followed by hexadecimal  *)
(* characters.                                                                *)

DecimalChars == <<"0", "1", "2", "3", "4", "5", "6", "7", "8", "9">>
HexChars == DecimalChars \o <<"A", "B", "C", "D", "E", "F">>

IsDecimalChar(c) == \E d \in 1..10 : DecimalChars[d] = c
DecimalValue(c) == (CHOOSE d \in 1..10 : DecimalChars[d] = c) - 1

RECURSIVE SplitSlashAcc(_, _)
SplitSlashAcc(s, cur) ==
    IF s = <<>> THEN <<cur>>
    ELSE IF Head(s) = "/" THEN <<cur>> \o SplitSlashAcc(Tail(s), <<>>)
    ELSE SplitSlashAcc(Tail(s), Append(cur, Head(s)))

\* date.split('/')
SplitSlash(s) == SplitSlashAcc(s, <<>>)

RECURSIVE IntAcc(_, _)
IntAcc(s, n) == IF s = <<>> THEN n ELSE IntAcc(Tail(s), 10 * n + DecimalValue(Head(s)))

\* int(s) of a string without blanks or sign: the number, or ValueError
ParseInt(s) ==
    IF s # <<>> /\ \A k \in 1..Len(s) : IsDecimalChar(s[k])
    THEN Return(IntAcc(s, 0))
    ELSE Raise("ValueError")

IsLeap(year) == year % 4 = 0 /\ (year % 100 # 0 \/ year % 400 = 0)

DaysInMonth(year, month) ==
    CASE month \in {4, 6, 9, 11} -> 30
      [] month = 2 -> IF IsLeap(year) THEN 29 ELSE 28
      [] OTHER -> 31

\* datetime(year, month, day, 12, 0, 0): the datetime, or ValueError
MakeDateTime(year, month, day) ==
    IF /\ year \in 1..9999
       /\ month \in 1..12
       /\ day >= 1 /\ day <= DaysInMonth(year, month)
    THEN Return([year |-> year, month |-> month, day |-> day,
                 hour |-> 12, minute |-> 0, second |-> 0])
    ELSE Raise("ValueError")

\* datetime.now() when the clock shows `now` seconds past midnight of the day
\* the service runs on
Now(now) ==
    [year |-> 2024, month |-> 1, day |-> 1,
     hour |-> now \div 3600, minute |-> (now \div 60) % 60, second |-> now % 60]

\* day, month, year = date.split('/')[:3], then the three int() and datetime()
DateFromFields(fields) ==
    IF Len(fields) < 3 THEN Raise("ValueError")
    ELSE IF ParseInt(fields[1]).raised \/ ParseInt(fields[2]).raised
            \/ ParseInt(fields[3]).raised
    THEN Raise("ValueError")
    ELSE MakeDateTime(ParseInt(fields[3]).value, ParseInt(fields[2]).value,
                      ParseInt(fields[1]).value)

\* the try block of generate_document_id: the date of the document, and the
\* current time when the date is empty, has no '/', or raises
DocDate(date, now) ==
    IF date # <<>> /\ (\E k \in 1..Len(date) : date[k] = "/")
    THEN IF DateFromFields(SplitSlash(date)).raised THEN Now(now)
         ELSE DateFromFields(SplitSlash(date)).value
    ELSE Now(now)

DecimalString(ds) == [k \in 1..Len(ds) |-> DecimalChars[ds[k] + 1]]

\* strftime("%Y%m%d%H%M%S"); whether %Y pads a year below 1000 to four digits
\* depends on the C library, padded tells which
StrfTime(d, padded) ==
    DecimalString(  ZeroPad(Digits(d.year), IF padded THEN 4 ELSE 1)
                 \o ZeroPad(Digits(d.month), 2) \o ZeroPad(Digits(d.day), 2)
                 \o ZeroPad(Digits(d.hour), 2) \o ZeroPad(Digits(d.minute), 2)
                 \o ZeroPad(Digits(d.second), 2))

\* the code point of a character of a text or a title
CharCode(c) == IF c = "a" THEN 97 ELSE 98

RECURSIVE DigestAcc(_, _)
DigestAcc(s, h) ==
    IF s = <<>> THEN h ELSE DigestAcc(Tail(s), (h * 31 + CharCode(Head(s))) % 4096)

\* hashlib.md5(s).hexdigest()[:3].upper(): three hexadecimal characters that
\* depend on s alone (a digest standing for md5, of which only that is used)
ContentHash(s) ==
    << HexChars[(DigestAcc(s, 7) \div 256) + 1],
       HexChars[((DigestAcc(s, 7) \div 16) % 16) + 1],
       HexChars[(DigestAcc(s, 7) % 16) + 1] >>

\* generate_document_id, called when the clock shows `now`
generate_document_id(text, title, date, now, padded) ==
    StrfTime(DocDate(date, now), padded) \o ContentHash(text \o title)

-----------------------------------------------------------------------------
(* Date Normalizer.  A date string is a sequence of characters in which the  *)
(* name of a month is one atom.                                              *)

\* the months of normalize_date in the order of the dictionary
months ==
    << [name |-> "janvier", num |-> <<"0", "1">>], [name |-> "février", num |-> <<"0", "2">>],
       [name |-> "mars", num |-> <<"0", "3">>], [name |-> "avril", num |-> <<"0", "4">>],
       [name |-> "mai", num |-> <<"0", "5">>], [name |-> "juin", num |-> <<"0", "6">>],
       [name |-> "juillet", num |-> <<"0", "7">>], [name |-> "août", num |-> <<"0", "8">>],
       [name |-> "septembre", num |-> <<"0", "9">>], [name |-> "octobre", num |-> <<"1", "0">>],
       [name |-> "novembre", num |-> <<"1", "1">>], [name |-> "décembre", num |-> <<"1", "2">>] >>

\* [\s\-\.\/]
IsDatePartSep(c) == IsSpace(c) \/ c \in {"-", ".", "/"}

RECURSIVE SplitPartsAcc(_, _, _)
SplitPartsAcc(s, cur, in_separator) ==
    IF s = <<>> THEN <<cur>>
    ELSE IF IsDatePartSep(Head(s))
         THEN (IF in_separator THEN SplitPartsAcc(Tail(s), <<>>, TRUE)
               ELSE <<cur>> \o SplitPartsAcc(Tail(s), <<>>, TRUE))
         ELSE SplitPartsAcc(Tail(s), Append(cur, Head(s)), FALSE)

\* re.split(r'[\s\-\.\/]+', date_clean)
SplitParts(s) == SplitPartsAcc(s, <<>>, FALSE)

\* str.zfill(width) of a string without sign
ZFill(s, width) ==
    IF CharCount(s) >= width THEN s ELSE [k \in 1..(width - CharCount(s)) |-> "0"] \o s

\* the branch of a date whose month is written as a name
MonthNameDate(parts, month_num) ==
    IF Len(parts) < 3 THEN Raise("IndexError")
    ELSE Return(ZFill(parts[1], 2) \o <<"/">> \o month_num \o <<"/">>
                \o (IF CharCount(parts[3]) = 4 THEN parts[3] ELSE <<"2", "0">> \o parts[3]))

\* the year of the numeric branch
NumericYear(year) ==
    IF CharCount(year) = 4 THEN Return(year)
    ELSE IF ParseInt(year).raised THEN ParseInt(year)
    ELSE IF ParseInt(year).value < 50 THEN Return(<<"2", "0">> \o year)
    ELSE Return(<<"1", "9">> \o year)

\* the numeric branch
NumericDate(parts, date_clean) ==
    IF Len(parts) >= 3
    THEN (IF NumericYear(parts[3]).raised THEN NumericYear(parts[3])
          ELSE Return(ZFill(parts[1], 2) \o <<"/">> \o ZFill(parts[2], 2) \o <<"/">>
                      \o NumericYear(parts[3]).value))
    ELSE Return(date_clean)

NormalizeClean(date_clean) ==
    IF \E m \in 1..Len(months) : Contains(date_clean, months[m].name)
    THEN MonthNameDate(SplitParts(date_clean),
                       months[CHOOSE m \in 1..Len(months) :
                                  /\ Contains(date_clean, months[m].name)
                                  /\ \A k \in 1..(m - 1) : ~Contains(date_clean, months[k].name)].num)
    ELSE NumericDate(SplitParts(date_clean), date_clean)

\* the outcome of normalize_date: the string it returns, or the exception
normalize_date(date_str) == NormalizeClean(CollapseSpaces(LowerWord(Strip(date_str))))

IsMonthName(c) == \E m \in 1..Len(months) : months[m].name = Lower(c)

DecimalAt(t, i) == i <= Len(t) /\ IsDecimalChar(t[i])

RECURSIVE SkipDatePartSep(_, _)
SkipDatePartSep(t, i) ==
    IF i <= Len(t) /\ IsDatePartSep(t[i]) THEN SkipDatePartSep(t, i + 1) ELSE i

\* [\s\/\-\.]+ (run) or [\s\/\-\.] matched at i: the first index after it, 0 if none
SepEnd(t, i, run) ==
    IF ~(i <= Len(t) /\ IsDatePartSep(t[i])) THEN 0
    ELSE IF run THEN SkipDatePartSep(t, i) ELSE i + 1

\* \d{1,2} matched at i and followed by no digit it could have taken
Digits12End(t, i) ==
    IF ~DecimalAt(t, i) THEN 0 ELSE IF DecimalAt(t, i + 1) THEN i + 2 ELSE i + 1

\* (?:janvier|...|décembre|\d{1,2}), the names or the digits alone for the
\* general patterns
MiddleEnd(t, i, names, numbers) ==
    IF i = 0 THEN 0
    ELSE IF names /\ i <= Len(t) /\ IsMonthName(t[i]) THEN i + 1
    ELSE IF numbers THEN Digits12End(t, i)
    ELSE 0

\* \d{2,4}
YearEnd(t, i) ==
    IF i = 0 \/ ~(DecimalAt(t, i) /\ DecimalAt(t, i + 1)) THEN 0
    ELSE IF ~DecimalAt(t, i + 2) THEN i + 2
    ELSE IF ~DecimalAt(t, i + 3) THEN i + 3
    ELSE i + 4

AfterSep(t, i, run) == IF i = 0 THEN 0 ELSE SepEnd(t, i, run)

\* a day, a month and a year with their separators matched at i: the first
\* index after the match, 0 if none
DatePatternEnd(t, i, names, numbers, run) ==
    YearEnd(t, AfterSep(t, MiddleEnd(t, AfterSep(t, Digits12End(t, i), run),
                                     names, numbers), run))

\* the words that introduce the date in the first, third and fourth priority
\* patterns: sign[eé]\s+le\s+, \ben\s+date\s+du\s+ and établi\s+le\s+
priority_patterns ==
    << <<{"signé", "signe"}, {"le"}>>, <<{"en"}, {"date"}, {"du"}>>, <<{"établi"}, {"le"}>> >>

RECURSIVE IntroEnd(_, _, _, _)
\* the words from the k-th on, each followed by \s+, matched at i: the index
\* where the date group starts, 0 if none
IntroEnd(t, i, intro, k) ==
    IF k > Len(intro) THEN i
    ELSE IF i + 1 <= Len(t) /\ Lower(t[i]) \in intro[k] /\ IsSpace(t[i + 1])
    THEN IntroEnd(t, SkipSpace(t, i + 1), intro, k + 1)
    ELSE 0

PriorityMatches(t, i, intro) ==
    IntroEnd(t, i, intro, 1) # 0 /\ DatePatternEnd(t, IntroEnd(t, i, intro, 1), TRUE, TRUE, TRUE) # 0

\* match.group(1) of the leftmost match of a priority pattern
PriorityGroup(t, intro) ==
    LET i == CHOOSE i \in 1..Len(t) :
                 PriorityMatches(t, i, intro) /\ \A k \in 1..(i - 1) : ~PriorityMatches(t, k, intro)
    IN  SubSeq(t, IntroEnd(t, i, intro, 1),
               DatePatternEnd(t, IntroEnd(t, i, intro, 1), TRUE, TRUE, TRUE) - 1)

\* fait\s+[àa]\s+[^\n]+\s+le\s+ matched at i: the splits the matcher can take,
\* \s+ up to a, [^\n]+ up to b, \s+ up to the word le at k, a date after it
FaitSplits(t, i) ==
    IF ~(i + 1 <= Len(t) /\ Lower(t[i]) = "fait" /\ IsSpace(t[i + 1])) THEN {}
    ELSE IF ~(SkipSpace(t, i + 1) <= Len(t) /\ Lower(t[SkipSpace(t, i + 1)]) \in {"à", "a"}) THEN {}
    ELSE UNION {UNION {{<<a, b, k>> :
                           k \in {k \in (b + 2)..(Len(t) - 1) :
                                     /\ \A q \in (b + 1)..(k - 1) : IsSpace(t[q])
                                     /\ Lower(t[k]) = "le" /\ IsSpace(t[k + 1])
                                     /\ DatePatternEnd(t, SkipSpace(t, k + 1), TRUE, TRUE, TRUE) # 0}} :
                       b \in {b \in (a + 1)..Len(t) : \A q \in (a + 1)..b : t[q] # NL}} :
                a \in {a \in (SkipSpace(t, i + 1) + 1)..Len(t) :
                          \A q \in (SkipSpace(t, i + 1) + 1)..a : IsSpace(t[q])}}

FaitMatches(t, i) == FaitSplits(t, i) # {}

\* the split the backtracking reaches first: both repetitions are greedy
FirstSplit(splits) ==
    CHOOSE x \in splits :
        \A y \in splits : y[1] < x[1] \/ (y[1] = x[1] /\ y[2] <= x[2])

\* the date after the word le at k
DateAfter(t, k) ==
    SubSeq(t, SkipSpace(t, k + 1), DatePatternEnd(t, SkipSpace(t, k + 1), TRUE, TRUE, TRUE) - 1)

\* match.group(1) of the leftmost match of the second priority pattern
FaitGroup(t) ==
    DateAfter(t, FirstSplit(FaitSplits(t,
        CHOOSE i \in 1..Len(t) : FaitMatches(t, i) /\ \A k \in 1..(i - 1) : ~FaitMatches(t, k)))[3])

\* match.group(0) of the leftmost match of a general pattern
GeneralGroup(t, names, numbers, run) ==
    LET i == CHOOSE i \in 1..Len(t) :
                 /\ DatePatternEnd(t, i, names, numbers, run) # 0
                 /\ \A k \in 1..(i - 1) : DatePatternEnd(t, k, names, numbers, run) = 0
    IN  SubSeq(t, i, DatePatternEnd(t, i, names, numbers, run) - 1)

\* strftime("%d/%m/%Y") of a date whose year has four digits
StrfDate(d) ==
    DecimalString(ZeroPad(Digits(d.day), 2)) \o <<"/">> \o DecimalString(ZeroPad(Digits(d.month), 2))
        \o <<"/">> \o DecimalString(ZeroPad(Digits(d.year), 4))

\* the outcome of extract_main_date, called when the clock shows `now`
extract_main_date(t, now) ==
    IF \E i \in 1..Len(t) : PriorityMatches(t, i, priority_patterns[1])
    THEN normalize_date(PriorityGroup(t, priority_patterns[1]))
    ELSE IF \E i \in 1..Len(t) : FaitMatches(t, i)
    THEN normalize_date(FaitGroup(t))
    ELSE IF \E i \in 1..Len(t) : PriorityMatches(t, i, priority_patterns[2])
    THEN normalize_date(PriorityGroup(t, priority_patterns[2]))
    ELSE IF \E i \in 1..Len(t) : PriorityMatches(t, i, priority_patterns[3])
    THEN normalize_date(PriorityGroup(t, priority_patterns[3]))
    ELSE IF \E i \in 1..Len(t) : DatePatternEnd(t, i, TRUE, FALSE, TRUE) # 0
    THEN normalize_date(GeneralGroup(t, TRUE, FALSE, TRUE))
    ELSE IF \E i \in 1..Len(t) : DatePatternEnd(t, i, FALSE, TRUE, FALSE) # 0
    THEN normalize_date(GeneralGroup(t, FALSE, TRUE, FALSE))
    ELSE Return(StrfDate(Now(now)))

-----------------------------------------------------------------------------
(* Document Metadata Extractor.  Of the title patterns, those that are one   *)
(* word; the value of parties_patterns is, for each role, a list of patterns *)
(* or one pattern, and none of them matches over the alphabet (each needs a  *)
(* capital letter followed by ten characters).                               *)

ListOfPatterns == "list"
OnePattern == "str"

\* document_patterns in the order of the dictionary
document_patterns ==
    << [name |-> "contrat_reservation_vefa", title_patterns |-> {},
        parties_patterns |-> << [role |-> "reservant", value |-> ListOfPatterns],
                                [role |-> "reservataire", value |-> ListOfPatterns] >>],
       [name |-> "cctp", title_patterns |-> {"cctp"},
        parties_patterns |-> << [role |-> "maitre_ouvrage", value |-> OnePattern],
                                [role |-> "entrepreneur", value |-> OnePattern] >>],
       [name |-> "bail_habitation", title_patterns |-> {},
        parties_patterns |-> << [role |-> "bailleur", value |-> OnePattern],
                                [role |-> "locataire", value |-> OnePattern] >>],
       [name |-> "bail_commercial", title_patterns |-> {},
        parties_patterns |-> << [role |-> "bailleur", value |-> OnePattern],
                                [role |-> "preneur", value |-> OnePattern] >>],
       [name |-> "acte_notarie", title_patterns |-> {},
        parties_patterns |-> << [role |-> "vendeur", value |-> OnePattern],
                                [role |-> "acquereur", value |-> OnePattern] >>],
       [name |-> "permis_construire", title_patterns |-> {},
        parties_patterns |-> << [role |-> "demandeur", value |-> OnePattern],
                                [role |-> "commune", value |-> OnePattern] >>],
       [name |-> "devis", title_patterns |-> {"devis", "estimation", "chiffrage"},
        parties_patterns |-> << [role |-> "entreprise", value |-> OnePattern],
                                [role |-> "client", value |-> OnePattern] >>] >>

\* sum of len(re.findall(pattern, text_lower)) * 3 over the title patterns
TitleScore(t, title_patterns) == 3 * Cardinality({i \in 1..Len(t) : Lower(t[i]) \in title_patterns})

RECURSIVE PartiesScore(_, _, _)
\* the loop over parties_patterns from the k-th role on: re.search raises
\* TypeError on a pattern that is a list (a list is unhashable)
PartiesScore(parties_patterns, k, score) ==
    IF k > Len(parties_patterns) THEN Return(score)
    ELSE IF parties_patterns[k].value = ListOfPatterns THEN Raise(TypeError)
    ELSE PartiesScore(parties_patterns, k + 1, score)

\* max(scores, key=scores.get) if scores else 'contrat_general'
BestType(scores) ==
    IF MaxSeq(scores) = 0 THEN "contrat_general"
    ELSE document_patterns[FirstMax(scores, 1)].name

RECURSIVE DetectFrom(_, _, _)
\* the loop of detect_document_type from the k-th type on
DetectFrom(t, k, scores) ==
    IF k > Len(document_patterns) THEN Return(BestType(scores))
    ELSE IF PartiesScore(document_patterns[k].parties_patterns, 1,
                         TitleScore(t, document_patterns[k].title_patterns)).raised
    THEN Raise(TypeError)
    ELSE DetectFrom(t, k + 1,
             Append(scores, PartiesScore(document_patterns[k].parties_patterns, 1,
                                         TitleScore(t, document_patterns[k].title_patterns)).value))

\* the outcome of detect_document_type: the type, or the exception
detect_document_type(t) == DetectFrom(t, 1, <<>>)

\* the steps of extract_document_metadata after the detection of the type:
\* the exception of the detection or of the date leaves it; the title, the
\* parties, the location and the project are the values the code falls back
\* to when none of their patterns matches
MetadataOf(doc_type, date, t, now, padded) ==
    IF doc_type.raised THEN doc_type
    ELSE IF date.raised THEN date
    ELSE Return([id       |-> generate_document_id(t, <<"DOCUMENT JURIDIQUE">>, date.value,
                                                   now, padded),
                 title    |-> <<"DOCUMENT JURIDIQUE">>,
                 date     |-> date.value,
                 type     |-> doc_type.value,
                 parties  |-> <<>>,
                 location |-> <<>>,
                 project  |-> <<>>])

\* the outcome of extract_document_metadata: the record, or the exception
extract_document_metadata(t, now, padded) ==
    MetadataOf(detect_document_type(t), extract_main_date(t, now), t, now, padded)

-----------------------------------------------------------------------------
(* Party Extractor.  A text is a sequence of characters.  A pattern is a     *)
(* sequence of items: a run of literal characters, or a repetition of one    *)
(* character class between min and max times (max -1: unbounded), greedy or  *)
(* lazy; the items of the capture group have group TRUE.  Every pattern is   *)
(* searched with re.IGNORECASE.                                              *)

AsciiLetters ==
    {"a", "b", "c", "d", "e", "f", "g", "h", "i", "j", "k", "l", "m", "n", "o", "p", "q",
     "r", "s", "t", "u", "v", "w", "x", "y", "z"}

\* the capital letters of the texts, lowered
LowerChar(c) == CASE c = "A" -> "a" [] c = "R" -> "r" [] c = "D" -> "d" [] OTHER -> c

\* character classes: the characters listed, or every character but those
Only(chars) == [negated |-> FALSE, chars |-> chars]
Except(chars) == [negated |-> TRUE, chars |-> chars]

InClass(c, class) == (LowerChar(c) \in class.chars) # class.negated

NotNewline == Except({NL})
WhiteSpace == Only({SP, NL, NBSP})

Lit(word) == [kind |-> "lit", word |-> word, class |-> NotNewline, min |-> 0, max |-> 0,
              greedy |-> TRUE, group |-> FALSE]
Rep(class, min, max, greedy, group) ==
    [kind |-> "rep", word |-> <<>>, class |-> class, min |-> min, max |-> max,
     greedy |-> greedy, group |-> group]

NoMatch == [ok |-> FALSE, gs |-> 0, ge |-> 0]

\* the literal run `word` (one set of characters per position) stands at i
LitAt(t, i, word) ==
    /\ i + Len(word) - 1 <= Len(t)
    /\ \A k \in 1..Len(word) : LowerChar(t[i + k - 1]) \in word[k]

\* the number of characters from i on that are in the class, at most limit
RunLength(t, i, class, limit) ==
    IF \A n \in 1..limit : InClass(t[i + n - 1], class) THEN limit
    ELSE (CHOOSE n \in 1..limit :
              /\ ~InClass(t[i + n - 1], class)
              /\ \A m \in 1..(n - 1) : InClass(t[i + m - 1], class)) - 1

\* the match of an item over [i, j) followed by the match `rest` of the items
\* after it
Then(item, i, j, rest, opens, closes) ==
    IF ~rest.ok THEN NoMatch
    ELSE [ok |-> TRUE,
          gs |-> IF item.group /\ opens THEN i ELSE rest.gs,
          ge |-> IF item.group /\ closes THEN j ELSE rest.ge]

\* of the matches tried by a repetition, the one the backtracking reaches
\* first: the longest for a greedy item, the shortest for a lazy one
FirstTried(item, tries) ==
    IF \A x \in tries : ~x.m.ok THEN NoMatch
    ELSE (CHOOSE x \in tries :
              /\ x.m.ok
              /\ \A y \in tries : y.m.ok => IF item.greedy THEN y.n <= x.n ELSE x.n <= y.n).m

RECURSIVE MatchFrom(_, _, _, _)
\* the match of the items from the k-th on at position i, as the backtracking
\* matcher finds it: whether there is one, and the span [gs, ge) of the group
MatchFrom(t, re, k, i) ==
    IF k > Len(re) THEN [ok |-> TRUE, gs |-> 0, ge |-> 0]
    ELSE IF re[k].kind = "lit"
    THEN IF LitAt(t, i, re[k].word)
         THEN Then(re[k], i, i + Len(re[k].word),
                   MatchFrom(t, re, k + 1, i + Len(re[k].word)),
                   k = 1 \/ ~re[k - 1].group, k = Len(re) \/ ~re[k + 1].group)
         ELSE NoMatch
    ELSE FirstTried(re[k],
             {[n |-> n,
               m |-> Then(re[k], i, i + n, MatchFrom(t, re, k + 1, i + n),
                          k = 1 \/ ~re[k - 1].group, k = Len(re) \/ ~re[k + 1].group)] :
                  n \in re[k].min..RunLength(t, i, re[k].class,
                                             IF re[k].max < 0 THEN Len(t) - i + 1
                                             ELSE Min(re[k].max, Len(t) - i + 1))})

\* re.search(pattern, text, re.IGNORECASE): the leftmost match
search(re, t) ==
    IF \A i \in 1..(Len(t) + 1) : ~MatchFrom(t, re, 1, i).ok THEN NoMatch
    ELSE MatchFrom(t, re, 1, CHOOSE i \in 1..(Len(t) + 1) :
                                 /\ MatchFrom(t, re, 1, i).ok
                                 /\ \A j \in 1..(i - 1) : ~MatchFrom(t, re, 1, j).ok)

\* match.group(1)
Group(t, match) == SubSeq(t, match.gs, match.ge - 1)

\* the elements of t at the positions kept, in order
Keep(t, kept) ==
    [k \in 1..Cardinality(kept) |->
        t[CHOOSE j \in kept : Cardinality({x \in kept : x <= j}) = k]]

\* re.sub(r'[,:;].*', '', party_name): from a comma, colon or semicolon to
\* the end of its line
CutAtPunctuation(t) ==
    Keep(t, {j \in 1..Len(t) :
                ~\E p \in 1..j : /\ t[p] \in {",", ":", ";"}
                                 /\ \A q \in p..j : t[q] # NL})

MaxPartyLen == 80

\* party_name[:80] without the cut
Untruncated(party_name) == party_name

\* party_name[:80]
Truncated(party_name) == SubSeq(party_name, 1, Min(MaxPartyLen, Len(party_name)))

\* ([A-Z][^\n]{min,max}) after the head and the gap
Named(head, gap, min, max) ==
    head \o gap \o <<Rep(Only(AsciiLetters), 1, 1, TRUE, TRUE), Rep(NotNewline, min, max, TRUE, TRUE)>>

RestOfLine == <<Rep(NotNewline, 0, -1, TRUE, FALSE)>>
Spaces == <<Rep(WhiteSpace, 1, -1, TRUE, FALSE)>>
EAcute == {"e", "é"}

Word(w) == <<Lit([k \in 1..Len(w) |-> IF w[k] = "E" THEN EAcute ELSE {w[k]}])>>

Keyword(w) == Named(Word(w), RestOfLine, 10, 80)

\* parties_patterns of each type of document_patterns, each role with the
\* list of its patterns ("E" in a word stands for [eé])
parties_patterns ==
    [contrat_reservation_vefa |->
        << [role |-> "reservant",
            patterns |->
              << Word(<<"s","o","c","i","é","t","é">>) \o Spaces
                    \o Word(<<"d","é","n","o","m","m","é","e">>) \o Spaces
                    \o <<Rep(Only(AsciiLetters), 1, 1, TRUE, TRUE),
                         Rep(NotNewline, 1, -1, FALSE, TRUE)>>
                    \o Spaces \o Word(<<"a","u">>) \o Spaces
                    \o Word(<<"c","a","p","i","t","a","l">>),
                 Keyword(<<"r","E","s","e","r","v","a","n","t">>),
                 Named(Word(<<"d","é","n","o","m","m","é","e">>), Spaces, 20, 80) >>],
           [role |-> "reservataire",
            patterns |->
              << Keyword(<<"r","E","s","e","r","v","a","t","a","i","r","e">>),
                 Named(Word(<<"a","p","p","e","l","é">>)
                           \o <<Rep(Only({"e"}), 0, 1, TRUE, FALSE)>> \o Spaces
                           \o Word(<<"r","é","s","e","r","v","a","t","a","i","r","e">>),
                       RestOfLine, 10, 80) >>] >>,
     cctp |->
        << [role |-> "maitre_ouvrage",
            patterns |->
              << Named(Word(<<"m","a">>) \o <<Rep(Only({"i", "î"}), 1, 1, TRUE, FALSE)>>
                           \o Word(<<"t","r","e">>) \o <<Rep(NotNewline, 0, 5, TRUE, FALSE)>>
                           \o Word(<<"o","u","v","r","a","g","e">>),
                       RestOfLine, 10, 80) >>],
           [role |-> "entrepreneur",
            patterns |-> << Keyword(<<"e","n","t","r","e","p","r","e","n","e","u","r">>) >>] >>,
     bail_habitation |->
        << [role |-> "bailleur", patterns |-> << Keyword(<<"b","a","i","l","l","e","u","r">>) >>],
           [role |-> "locataire",
            patterns |-> << Keyword(<<"l","o","c","a","t","a","i","r","e">>) >>] >>,
     bail_commercial |->
        << [role |-> "bailleur", patterns |-> << Keyword(<<"b","a","i","l","l","e","u","r">>) >>],
           [role |-> "preneur", patterns |-> << Keyword(<<"p","r","e","n","e","u","r">>) >>] >>,
     acte_notarie |->
        << [role |-> "vendeur", patterns |-> << Keyword(<<"v","e","n","d","e","u","r">>) >>],
           [role |-> "acquereur",
            patterns |-> << Keyword(<<"a","c","q","u","E","r","e","u","r">>) >>] >>,
     permis_construire |->
        << [role |-> "demandeur",
            patterns |-> << Keyword(<<"d","e","m","a","n","d","e","u","r">>) >>],
           [role |-> "commune",
            patterns |-> << Named(Word(<<"c","o","m","m","u","n","e">>),
                                  <<Rep(NotNewline, 0, 20, TRUE, FALSE)>>, 10, 40) >>] >>,
     devis |->
        << [role |-> "entreprise",
            patterns |-> << Keyword(<<"e","n","t","r","e","p","r","i","s","e">>) >>],
           [role |-> "client", patterns |-> << Keyword(<<"c","l","i","e","n","t">>) >>] >>]

Quotes == {"«", "\""}
ClosingQuotes == {"»", "\""}

\* generic_patterns of extract_parties
generic_patterns ==
    << [role |-> "partie_1",
        pattern |-> Word(<<"d","é","n","o","m","m","é">>)
                        \o <<Rep(Only({"e"}), 0, 1, TRUE, FALSE)>> \o Spaces
                        \o <<Rep(Only(Quotes), 1, 1, TRUE, FALSE),
                             Rep(Except(ClosingQuotes \cup {NL}), 10, 80, TRUE, TRUE),
                             Rep(Only(ClosingQuotes), 1, 1, TRUE, FALSE)>>],
       [role |-> "partie_2",
        pattern |-> Named(Word(<<"d","'","a","u","t","r","e">>) \o Spaces
                              \o Word(<<"p","a","r","t">>),
                          RestOfLine, 10, 80)] >>

Placeholder == <<"[", "R", "é", "s", "e", "r", "v", "a", "t", "a", "i", "r", "e", "]">>

RECURSIVE FirstMatching(_, _, _)
\* the first pattern of the list, from the k-th on, that matches: 0 if none
FirstMatching(t, patterns, k) ==
    IF k > Len(patterns) THEN 0
    ELSE IF search(patterns[k], t).ok THEN k
    ELSE FirstMatching(t, patterns, k + 1)

\* the entry of one role in the loop over the parties patterns, if any
PartyOf(t, entry, first) ==
    IF first = 0 THEN <<>>
    ELSE << [role |-> entry.role,
             name |-> Truncated(Strip(CutAtPunctuation(
                          Group(t, search(entry.patterns[first], t)))))] >>

RECURSIVE TypedParties(_, _, _)
TypedParties(t, entries, k) ==
    IF k > Len(entries) THEN <<>>
    ELSE PartyOf(t, entries[k], FirstMatching(t, entries[k].patterns, 1))
             \o TypedParties(t, entries, k + 1)

RECURSIVE GenericParties(_, _)
GenericParties(t, k) ==
    IF k > Len(generic_patterns) THEN <<>>
    ELSE (IF search(generic_patterns[k].pattern, t).ok
          THEN << [role |-> generic_patterns[k].role,
                   name |-> Truncated(Strip(Group(t, search(generic_patterns[k].pattern, t))))] >>
          ELSE <<>>) \o GenericParties(t, k + 1)

\* the default of the reservataire, then the generic search when no party
\* was found
WithDefaults(t, doc_type, parties) ==
    IF doc_type = "contrat_reservation_vefa" /\ \A k \in 1..Len(parties) : parties[k].role # "reservataire"
    THEN Append(parties, [role |-> "reservataire", name |-> Placeholder])
    ELSE IF parties = <<>> THEN GenericParties(t, 1)
    ELSE parties

\* the dictionary extract_parties returns, as the sequence of its items
extract_parties(t, doc_type) ==
    WithDefaults(t, doc_type,
                 IF doc_type \in DOMAIN parties_patterns
                 THEN TypedParties(t, parties_patterns[doc_type], 1)
                 ELSE <<>>)

-----------------------------------------------------------------------------
(* Inputs *)

MaxRawLen == 4

RECURSIVE SeqsUpTo(_, _)
\* the sequences over S of length at most n
SeqsUpTo(S, n) ==
    IF n = 0 THEN {<<>>}
    ELSE LET shorter == SeqsUpTo(S, n - 1)
         IN  shorter \cup {Append(s, x) : s \in {q \in shorter : Len(q) = n - 1}, x \in S}

\* values of the variables a specification does not use, or has not set yet
NoRequest == [entry |-> "none"]
NoFrame == [caller |-> "none"]
Pending == [raised |-> FALSE, value |-> <<>>]
NoDocument == [text |-> <<>>, title |-> <<>>, date |-> <<>>, padded |-> TRUE]

NoHttpRequest == [extractedText |-> <<>>]
NoResponse == [status_code |-> 0, detail |-> "", content |-> <<>>]

\* no request posted, no metadata method and no overlap call running
ApiIdle == http = NoHttpRequest /\ response = NoResponse
MetaIdle == sample = <<>> /\ sample_type = None /\ extracted = Pending
OverlapIdle == seed_chunk = <<>> /\ seed_size = 0 /\ seed = <<>>
ThemeIdle == pair = <<>> /\ consistency = <<>>
ConcIdle == calls = <<>> /\ frames = <<>> /\ service = <<>>

\* the variables of the chunk builders
chunkVars == <<req, std, tab, tbl, result>>

NormAlphabet == {SP, NBSP, ZWSP, "le", "article", "5", "euros", "."}

-----------------------------------------------------------------------------
(* SpecNorm: preprocess_text applied to a text, then to its own output *)

InitNorm ==
    /\ pc = "start"
    /\ raw \in SeqsUpTo(NormAlphabet, MaxRawLen)
    /\ normalized = <<>> /\ renormalized = <<>>
    /\ req = NoRequest /\ std = NoFrame /\ tab = NoFrame /\ tbl = NoFrame
    /\ result = Pending
    /\ content = <<>> /\ quality = Pending /\ label = None
    /\ doc = NoDocument /\ clock = 0 /\ ids = <<>>
    /\ ApiIdle /\ MetaIdle /\ OverlapIdle
    /\ ThemeIdle /\ ConcIdle

Preprocess ==
    /\ pc = "start"
    /\ normalized' = preprocess_text(raw)
    /\ pc' = "once"
    /\ UNCHANGED <<raw, renormalized, chunkVars, scoreVars, docVars, apiVars, metaVars, overlapVars, themeVars, concVars>>

PreprocessAgain ==
    /\ pc = "once"
    /\ renormalized' = preprocess_text(normalized)
    /\ pc' = "twice"
    /\ UNCHANGED <<raw, normalized, chunkVars, scoreVars, docVars, apiVars, metaVars, overlapVars, themeVars, concVars>>

NextNorm == Preprocess \/ PreprocessAgain

SpecNorm == InitNorm /\ [][NextNorm]_vars

-----------------------------------------------------------------------------
(* SpecChunk: one call of create_smart_chunks, chunk_standard_content,       *)
(* chunk_with_table_handling or chunk_table_content, the loops of the chunk  *)
(* builders taken one iteration at a time                                    *)

MaxSentences == 3
MaxLines == 3
MaxDataRows == 7
MaxBigWords == 11

SentenceCatalogue ==
    { <<"texte", SP, "texte", ".">>,
      <<"Cependant", SP, "texte", ".">>,
      <<"Cependant", ",", SP, "texte", ".">>,
      <<"article", SP, "5", SP, "texte", ".">>,
      <<"5", SP, "euros", ".">>,
      <<"M", ".", SP, "texte", ".">> }

HeaderRow == <<"|", "le", "|", "le", "|">>
SeparatorRow == <<"|", "-", "|", "-", "|">>
RuleRow == <<"-", "-">>
DataRow == <<"|", "5", "|", "5", "|">>

LineCatalogue ==
    { <<"texte", SP, "texte", ".">>, <<"Cependant", SP, "texte", ".">>,
      HeaderRow, SeparatorRow, RuleRow, DataRow }

\* a header row, a separator row and n data rows, one row per line
TableBlock(separator, n) ==
    Join(<<NL>>, <<HeaderRow, separator>> \o [k \in 1..n |-> DataRow])

Users == {"u1", "u2"}
Projects == {"p1"}

Request(entry, text, target_size, overlap_size, start_id, user_id, project_id) ==
    [entry |-> entry, text |-> text, target_size |-> target_size,
     overlap |-> overlap_size, start_id |-> start_id,
     user_id |-> user_id, project_id |-> project_id]

SentenceTexts ==
    {Join(<<SP>>, ss) : ss \in SeqsUpTo(SentenceCatalogue, MaxSentences) \ {<<>>}}

BigTexts ==
    {Join(<<SP>>, [k \in 1..n |-> <<w>>]) : w \in {"le", "texte"}, n \in 10..MaxBigWords}

LineTexts ==
    {Join(<<NL>>, ls) : ls \in SeqsUpTo(LineCatalogue, MaxLines) \ {<<>>}}

SmartRequests ==
    {Request("create_smart_chunks", t, ts, ov, 1, "u1", "p1") :
        t \in SentenceTexts \cup BigTexts, ts \in {3, 12}, ov \in {0, 2}}

StandardRequests ==
    {Request("chunk_standard_content", preprocess_text(t), ts, ov, id, "u1", "p1") :
        t \in SentenceTexts, ts \in {2, 4}, ov \in {0, 2}, id \in {1, 3}}

TableHandlingRequests ==
    {Request("chunk_with_table_handling", t, 2, ov, 1, u, p) :
        t \in LineTexts, ov \in {0, 1}, u \in Users, p \in Projects}

TableBlockRequests ==
    {Request("chunk_table_content", TableBlock(sep, n), 2, 0, id, u, p) :
        sep \in {SeparatorRow, RuleRow}, n \in 0..MaxDataRows, id \in {1, 3},
        u \in Users, p \in Projects}

\* sentences with a semicolon or a colon inside, and a text that ends with one
EnumerationTexts ==
    { <<"texte", ";", SP, "texte", ".", SP, "texte", SP, "texte", ".", SP, "texte", ".">>,
      <<"texte", ":", SP, "texte", ";", SP, "texte", ".", SP, "texte", SP, "texte", ".", SP,
        "texte", ":">>,
      <<"texte", ".", SP, "texte", ";">> }

EnumerationRequests ==
    {Request("chunk_standard_content", t, ts, ov, 1, "u1", "p1") :
        t \in EnumerationTexts, ts \in {1, 2}, ov \in {0, 2}}

\* texts with the rows of a table, on lines of their own or on one line
PipeTexts ==
    { TableBlock(SeparatorRow, 1), TableBlock(SeparatorRow, 3),
      Join(<<NL>>, <<<<"texte", SP, "texte", ".">>, HeaderRow, SeparatorRow, DataRow,
                     <<"Cependant", SP, "texte", ".">>>>),
      Join(<<SP>>, <<HeaderRow, DataRow>>),
      Join(<<SP>>, <<<<"texte", SP, "texte", ".">>, HeaderRow, DataRow, DataRow>>) }

PipeRequests ==
    {Request(entry, t, 3, 0, 1, "u1", "p1") :
        entry \in {"create_smart_chunks", "chunk_with_table_handling"}, t \in PipeTexts}

InitChunk ==
    /\ pc = "call"
    /\ req \in SmartRequests \cup StandardRequests \cup TableHandlingRequests
               \cup TableBlockRequests \cup EnumerationRequests \cup PipeRequests
    /\ raw = req.text
    /\ normalized = <<>> /\ renormalized = <<>>
    /\ std = NoFrame /\ tab = NoFrame /\ tbl = NoFrame /\ result = Pending
    /\ content = <<>> /\ quality = Pending /\ label = None
    /\ doc = NoDocument /\ clock = 0 /\ ids = <<>>
    /\ ApiIdle /\ MetaIdle /\ OverlapIdle
    /\ ThemeIdle /\ ConcIdle

\* the locals of chunk_with_table_handling on entry
TblEnter(text, target_size, overlap_size, user_id, project_id) ==
    [target_size |-> target_size, overlap |-> overlap_size,
     user_id |-> user_id, project_id |-> project_id, caller |-> "top",
     sections |-> split_by_tables(text), i |-> 1, chunk_id |-> 1, chunks |-> <<>>]

\* chunks.extend(new_chunks) without chunk_id += len(new_chunks)
TblExtendStale(t, new_chunks) ==
    [t EXCEPT !.chunks = @ \o new_chunks, !.i = @ + 1]

\* chunks.extend(new_chunks); chunk_id += len(new_chunks); next section
TblExtend(t, new_chunks) ==
    [t EXCEPT !.chunks = @ \o new_chunks, !.chunk_id = @ + Len(new_chunks), !.i = @ + 1]

CallCreateSmartChunks ==
    /\ pc = "call" /\ req.entry = "create_smart_chunks"
    /\ LET text == preprocess_text(req.text)
           special_sections == detect_special_structures(text)
           adaptive_size == calculate_adaptive_size(text, req.target_size)
       IN  /\ normalized' = text
           /\ IF special_sections.has_tables
              THEN /\ tbl' = TblEnter(text, adaptive_size, req.overlap,
                                      req.user_id, req.project_id)
                   /\ pc' = "tbl_loop"
                   /\ std' = std
              ELSE /\ std' = StdEnter(text, adaptive_size, req.overlap, 1,
                                      req.user_id, req.project_id, "top")
                   /\ pc' = "std_loop"
                   /\ tbl' = tbl
    /\ UNCHANGED <<raw, renormalized, req, tab, result, scoreVars, docVars, apiVars, metaVars, overlapVars, themeVars, concVars>>

CallChunkStandardContent ==
    /\ pc = "call" /\ req.entry = "chunk_standard_content"
    /\ std' = StdEnter(req.text, req.target_size, req.overlap, req.start_id,
                       req.user_id, req.project_id, "top")
    /\ pc' = "std_loop"
    /\ UNCHANGED <<raw, normalized, renormalized, req, tab, tbl, result, scoreVars, docVars, apiVars, metaVars, overlapVars, themeVars, concVars>>

CallChunkWithTableHandling ==
    /\ pc = "call" /\ req.entry = "chunk_with_table_handling"
    /\ tbl' = TblEnter(req.text, req.target_size, req.overlap, req.user_id, req.project_id)
    /\ pc' = "tbl_loop"
    /\ UNCHANGED <<raw, normalized, renormalized, req, std, tab, result, scoreVars, docVars, apiVars, metaVars, overlapVars, themeVars, concVars>>

CallChunkTableContent ==
    /\ pc = "call" /\ req.entry = "chunk_table_content"
    /\ tab' = TabEnter(req.text, req.start_id, req.user_id, req.project_id, "top")
    /\ pc' = "tab_loop"
    /\ UNCHANGED <<raw, normalized, renormalized, req, std, tbl, result, scoreVars, docVars, apiVars, metaVars, overlapVars, themeVars, concVars>>

\* chunk_standard_content: one sentence of the loop
StdSentence ==
    /\ pc = "std_loop" /\ std.i <= Len(std.sentences)
    /\ std' = StdIterate(std)
    /\ IF std'.raised
       THEN pc' = "done" /\ result' = Raise(ZeroDivisionError)
       ELSE pc' = pc /\ result' = result
    /\ UNCHANGED <<raw, normalized, renormalized, req, tab, tbl, scoreVars, docVars, apiVars, metaVars, overlapVars, themeVars, concVars>>

\* chunk_standard_content: the final chunk and the return to the caller
StdReturn ==
    /\ pc = "std_loop" /\ std.i > Len(std.sentences)
    /\ std' = StdFinish(std)
    /\ IF std'.raised
       THEN pc' = "done" /\ result' = Raise(ZeroDivisionError) /\ tbl' = tbl
       ELSE IF std.caller = "top"
       THEN pc' = "done" /\ result' = Return(std'.chunks) /\ tbl' = tbl
       ELSE pc' = "tbl_loop" /\ result' = result /\ tbl' = TblExtend(tbl, std'.chunks)
    /\ UNCHANGED <<raw, normalized, renormalized, req, tab, scoreVars, docVars, apiVars, metaVars, overlapVars, themeVars, concVars>>

\* chunk_table_content: one line of the loop
TabLine ==
    /\ pc = "tab_loop" /\ tab.i <= Len(tab.lines)
    /\ tab' = TabIterate(tab)
    /\ IF tab'.raised
       THEN pc' = "done" /\ result' = Raise(ZeroDivisionError)
       ELSE pc' = pc /\ result' = result
    /\ UNCHANGED <<raw, normalized, renormalized, req, std, tbl, scoreVars, docVars, apiVars, metaVars, overlapVars, themeVars, concVars>>

\* chunk_table_content: the final chunk and the return to the caller
TabReturn ==
    /\ pc = "tab_loop" /\ tab.i > Len(tab.lines)
    /\ tab' = TabFinish(tab)
    /\ IF tab'.raised
       THEN pc' = "done" /\ result' = Raise(ZeroDivisionError) /\ tbl' = tbl
       ELSE IF tab.caller = "top"
       THEN pc' = "done" /\ result' = Return(tab'.chunks) /\ tbl' = tbl
       ELSE pc' = "tbl_loop" /\ result' = result /\ tbl' = TblExtend(tbl, tab'.chunks)
    /\ UNCHANGED <<raw, normalized, renormalized, req, std, scoreVars, docVars, apiVars, metaVars, overlapVars, themeVars, concVars>>

\* chunk_with_table_handling: a table section, handed to chunk_table_content
TblTableSection ==
    /\ pc = "tbl_loop" /\ tbl.i <= Len(tbl.sections)
    /\ is_table_content(tbl.sections[tbl.i])
    /\ tab' = TabEnter(tbl.sections[tbl.i], tbl.chunk_id, tbl.user_id, tbl.project_id, "tbl")
    /\ pc' = "tab_loop"
    /\ UNCHANGED <<raw, normalized, renormalized, req, std, tbl, result, scoreVars, docVars, apiVars, metaVars, overlapVars, themeVars, concVars>>

\* chunk_with_table_handling: a section of normal text, handed to chunk_standard_content
TblStandardSection ==
    /\ pc = "tbl_loop" /\ tbl.i <= Len(tbl.sections)
    /\ ~is_table_content(tbl.sections[tbl.i])
    /\ std' = StdEnter(tbl.sections[tbl.i], tbl.target_size, tbl.overlap, tbl.chunk_id,
                       tbl.user_id, tbl.project_id, "tbl")
    /\ pc' = "std_loop"
    /\ UNCHANGED <<raw, normalized, renormalized, req, tab, tbl, result, scoreVars, docVars, apiVars, metaVars, overlapVars, themeVars, concVars>>

TblReturn ==
    /\ pc = "tbl_loop" /\ tbl.i > Len(tbl.sections)
    /\ result' = Return(tbl.chunks)
    /\ pc' = "done"
    /\ UNCHANGED <<raw, normalized, renormalized, req, std, tab, tbl, scoreVars, docVars, apiVars, metaVars, overlapVars, themeVars, concVars>>

NextChunk ==
    \/ CallCreateSmartChunks
    \/ CallChunkStandardContent
    \/ CallChunkWithTableHandling
    \/ CallChunkTableContent
    \/ StdSentence
    \/ StdReturn
    \/ TabLine
    \/ TabReturn
    \/ TblTableSection
    \/ TblStandardSection
    \/ TblReturn

SpecChunk == InitChunk /\ [][NextChunk]_vars

-----------------------------------------------------------------------------
(* SpecQuality: analyze_quality applied to a content                         *)

MaxBaseWords == 3
MaxRepeat == 5

QualityWords == {"le", "texte", "contrat", "cependant", "5", "euros", ";"}

\* the words, separated by single spaces
Sentence(ws) == Join(<<SP>>, [k \in 1..Len(ws) |-> <<ws[k]>>])

\* ws repeated n times
Repeat(ws, n) == [k \in 1..(n * Len(ws)) |-> ws[((k - 1) % Len(ws)) + 1]]

QualityContents ==
    {Sentence(Repeat(ws, n)) : ws \in SeqsUpTo(QualityWords, MaxBaseWords),
                               n \in 0..MaxRepeat}

InitQuality ==
    /\ pc = "content"
    /\ content \in QualityContents
    /\ quality = Pending /\ label = None
    /\ raw = <<>> /\ normalized = <<>> /\ renormalized = <<>>
    /\ req = NoRequest /\ std = NoFrame /\ tab = NoFrame /\ tbl = NoFrame
    /\ result = Pending
    /\ doc = NoDocument /\ clock = 0 /\ ids = <<>>
    /\ ApiIdle /\ MetaIdle /\ OverlapIdle
    /\ ThemeIdle /\ ConcIdle

AnalyzeQuality ==
    /\ pc = "content"
    /\ quality' = analyze_quality(content)
    /\ pc' = "scored"
    /\ UNCHANGED <<raw, normalized, renormalized, chunkVars, content, label, docVars,
                   apiVars, metaVars, overlapVars, themeVars, concVars>>

NextQuality == AnalyzeQuality

SpecQuality == InitQuality /\ [][NextQuality]_vars

-----------------------------------------------------------------------------
(* SpecDocId: generate_document_id called several times on one document, as  *)
(* the clock advances                                                        *)

MaxClock == 3
MaxCalls == 2
MaxDocLen == 1

DocChars == {"a", "b"}

Days == {<<"1", "5">>, <<"3", "1">>}
Months == {<<"0", "2">>, <<"0", "9">>, <<"1", "3">>}
Years == {<<"2", "0", "1", "2">>, <<"0", "1", "9", "8">>, <<"0", "0", "0", "0">>}

DocDates ==
    {<<>>, <<"a">>, <<"1", "5", "/", "0", "9">>, <<"1", "5", "/", "a", "/", "2", "0", "1", "2">>}
    \cup {d \o <<"/">> \o m \o <<"/">> \o y : d \in Days, m \in Months, y \in Years}
    \cup {d \o <<"/">> \o m \o <<"/">> \o y \o <<"/", "1">> : d \in Days, m \in Months, y \in Years}

InitDocId ==
    /\ pc = "document"
    /\ doc \in [text : SeqsUpTo(DocChars, MaxDocLen), title : SeqsUpTo(DocChars, MaxDocLen),
                date : DocDates, padded : BOOLEAN]
    /\ clock = 0 /\ ids = <<>>
    /\ raw = <<>> /\ normalized = <<>> /\ renormalized = <<>>
    /\ req = NoRequest /\ std = NoFrame /\ tab = NoFrame /\ tbl = NoFrame
    /\ result = Pending
    /\ content = <<>> /\ quality = Pending /\ label = None
    /\ ApiIdle /\ MetaIdle /\ OverlapIdle
    /\ ThemeIdle /\ ConcIdle

Tick ==
    /\ pc = "document" /\ clock < MaxClock
    /\ clock' = clock + 1
    /\ UNCHANGED <<pc, raw, normalized, renormalized, chunkVars, scoreVars, doc, ids,
                   apiVars, metaVars, overlapVars, themeVars, concVars>>

GenerateDocumentId ==
    /\ pc = "document" /\ Len(ids) < MaxCalls
    /\ ids' = Append(ids, generate_document_id(doc.text, doc.title, doc.date, clock, doc.padded))
    /\ UNCHANGED <<pc, raw, normalized, renormalized, chunkVars, scoreVars, doc, clock,
                   apiVars, metaVars, overlapVars, themeVars, concVars>>

NextDocId == Tick \/ GenerateDocumentId

SpecDocId == InitDocId /\ [][NextDocId]_vars

-----------------------------------------------------------------------------
(* SpecApi: one request posted to /chunk, answered by chunk_document.  The   *)
(* value of an option is absent from the dictionary, an integer, or a value  *)
(* that is not a number (options is a Dict[str, Any]).                       *)

MinTextLength == 100
DefaultTargetChunkSize == 60
DefaultOverlapSize == 15
MinTargetChunkSize == 20
MaxTargetChunkSize == 200
MinOverlapSize == 0
MaxOverlapSize == 50

BaseSentences == 7
MaxShortWords == 26

Absent == [kind |-> "absent", value |-> 0]
Integer(n) == [kind |-> "int", value |-> n]
NotANumber == [kind |-> "str", value |-> 0]

\* what chunk_document answers: HTTPException(400), HTTPException(500) or the
\* JSONResponse; NoResponse while the request passes the validation
BadRequest(detail) == [status_code |-> 400, detail |-> detail, content |-> <<>>]
ServerError(e) == [status_code |-> 500, detail |-> e, content |-> <<>>]
JSONResponse(chunks) ==
    [status_code |-> 200, detail |-> "",
     content |-> [success |-> TRUE, chunks |-> chunks, total_chunks |-> Len(chunks)]]

\* options.get(key, default)
OptionGet(options, key, default) ==
    IF options[key].kind = "absent" THEN Integer(default) ELSE options[key]

\* the two range checks; lo <= v <= hi raises TypeError when v is not a number
CheckOptions(target_chunk_size, overlap) ==
    IF target_chunk_size.kind # "int" THEN ServerError(TypeError)
    ELSE IF ~(MinTargetChunkSize <= target_chunk_size.value
              /\ target_chunk_size.value <= MaxTargetChunkSize)
    THEN BadRequest("target_chunk_size doit être entre 20 et 200 mots")
    ELSE IF overlap.kind # "int" THEN ServerError(TypeError)
    ELSE IF ~(MinOverlapSize <= overlap.value /\ overlap.value <= MaxOverlapSize)
    THEN BadRequest("overlap_size doit être entre 0 et 50 mots")
    ELSE NoResponse

CheckRequest(extracted_text, options) ==
    IF extracted_text = <<>>
    THEN BadRequest("Le champ extractedText est requis et ne peut pas être vide")
    ELSE IF CharCount(extracted_text) < MinTextLength
    THEN BadRequest("Le texte doit contenir au moins 100 caractères")
    ELSE CheckOptions(OptionGet(options, "target_chunk_size", DefaultTargetChunkSize),
                      OptionGet(options, "overlap_size", DefaultOverlapSize))

\* the statistics loop and the response: chunk['chunk_metadata'] and
\* chunks[0]['document_info'] raise KeyError on a chunk without these keys
Respond(outcome) ==
    IF outcome.raised THEN ServerError(outcome.value)
    ELSE IF outcome.value # <<>>
            /\ \/ "chunk_metadata" \notin DOMAIN outcome.value[1]
               \/ "document_info" \notin DOMAIN outcome.value[1]
    THEN ServerError(KeyError)
    ELSE JSONResponse(outcome.value)

ApiBase == Join(<<SP>>, [k \in 1..BaseSentences |-> <<"texte", SP, "texte", ".">>])

ApiTexts ==
    { <<>>, <<SP>>,
      ApiBase \o <<SP, "5", SP, "euros", ".">>,
      ApiBase \o <<SP, "M", ".", SP, "texte", ".">>,
      <<SP>> \o ApiBase \o <<SP, "M", ".", SP, "texte", ".", NL>>,
      ApiBase \o <<SP, "Cependant", SP, "texte", ".">>,
      Join(<<SP>>, [k \in 1..(MaxShortWords - 1) |-> <<"les">>]),
      Join(<<SP>>, [k \in 1..MaxShortWords |-> <<"les">>]) }

TargetOptions == {Absent, Integer(19), Integer(20), Integer(200), Integer(201), NotANumber}
OverlapOptions == {Absent, Integer(0 - 1), Integer(0), Integer(50), Integer(51), NotANumber}

InitApi ==
    /\ pc = "request"
    /\ http \in [extractedText : ApiTexts, userId : {"u1"}, projectId : {"p1"},
                 options : [target_chunk_size : TargetOptions, overlap_size : OverlapOptions]]
    /\ response = NoResponse
    /\ raw = <<>> /\ normalized = <<>> /\ renormalized = <<>>
    /\ req = NoRequest /\ std = NoFrame /\ tab = NoFrame /\ tbl = NoFrame
    /\ result = Pending
    /\ content = <<>> /\ quality = Pending /\ label = None
    /\ doc = NoDocument /\ clock = 0 /\ ids = <<>>
    /\ MetaIdle /\ OverlapIdle
    /\ ThemeIdle /\ ConcIdle

\* chunk_document up to the call of create_smart_chunks
HandleValidate ==
    /\ pc = "request"
    /\ response' = CheckRequest(Strip(http.extractedText), http.options)
    /\ IF response'.status_code = 0
       THEN /\ pc' = "call"
            /\ req' = Request("create_smart_chunks", Strip(http.extractedText),
                              OptionGet(http.options, "target_chunk_size",
                                        DefaultTargetChunkSize).value,
                              OptionGet(http.options, "overlap_size",
                                        DefaultOverlapSize).value,
                              1, http.userId, http.projectId)
       ELSE pc' = "answered" /\ req' = req
    /\ UNCHANGED <<raw, normalized, renormalized, std, tab, tbl, result, http,
                   scoreVars, docVars, metaVars, overlapVars, themeVars, concVars>>

\* chunk_document from the return of create_smart_chunks on
HandleRespond ==
    /\ pc = "done"
    /\ response' = Respond(result)
    /\ pc' = "answered"
    /\ UNCHANGED <<raw, normalized, renormalized, chunkVars, http,
                   scoreVars, docVars, metaVars, overlapVars, themeVars, concVars>>

NextApi ==
    \/ HandleValidate
    \/ CallCreateSmartChunks
    \/ StdSentence
    \/ StdReturn
    \/ HandleRespond

SpecApi == InitApi /\ [][NextApi]_vars

-----------------------------------------------------------------------------
(* SpecClassify: classify_content applied to a content                       *)

MaxClassifyWords == 4

ClassifyWords ==
    {"clause", "contrôle", "de", "si", "assurance", "5", "euros", "texte"}

ClassifyContents ==
    {Join(<<SP>>, [k \in 1..Len(ws) |-> <<ws[k]>>]) : ws \in SeqsUpTo(ClassifyWords, MaxClassifyWords)}

InitClassify ==
    /\ pc = "content"
    /\ content \in ClassifyContents
    /\ quality = Pending /\ label = None
    /\ raw = <<>> /\ normalized = <<>> /\ renormalized = <<>>
    /\ req = NoRequest /\ std = NoFrame /\ tab = NoFrame /\ tbl = NoFrame
    /\ result = Pending
    /\ doc = NoDocument /\ clock = 0 /\ ids = <<>>
    /\ ApiIdle /\ MetaIdle /\ OverlapIdle
    /\ ThemeIdle /\ ConcIdle

ClassifyContent ==
    /\ pc = "content"
    /\ label' = classify_content(content)
    /\ pc' = "classified"
    /\ UNCHANGED <<raw, normalized, renormalized, chunkVars, content, quality, docVars,
                   apiVars, metaVars, overlapVars, themeVars, concVars>>

NextClassify == ClassifyContent

SpecClassify == InitClassify /\ [][NextClassify]_vars

-----------------------------------------------------------------------------
(* SpecMeta: one call of normalize_date, of extract_main_date or of          *)
(* extract_document_metadata                                                 *)

DateDays == {<<"5">>, <<"1", "5">>}
DateSeparators == {<<"/">>, <<SP>>, <<"-">>, <<".", SP>>}
DateMonths == {<<"9">>, <<"0", "9">>, <<"mars">>, <<"septembre">>}
DateYears ==
    {<<"7">>, <<"4", "9">>, <<"5", "0">>, <<"9", "8">>, <<"1", "9", "8">>,
     <<"1", "9", "9", "8">>, <<"2", "0", "4", "9">>, <<"1", "9", "9", "8", "5">>}

\* a day, a month and a year with the same separator twice
DateStrings ==
    {d \o sep \o m \o sep \o y : d \in DateDays, sep \in DateSeparators, m \in DateMonths,
                                 y \in DateYears}

DateIntros ==
    {<<>>, <<"texte", SP>>, <<"signé", SP, "le", SP>>, <<"en", SP, "date", SP, "du", SP>>,
     <<"1", "/", "1", "/", "2", "0", "0", "0", SP, "établi", SP, "le", SP>>,
     <<"1", "/", "1", "/", "2", "0", "0", "0", SP>>,
     <<"fait", SP, "à", SP, "le", SP>>,
     <<"Fait", SP, "a", SP, "texte", SP, "le", SP, "5", "/", "5", "/", "2", "0", SP, "le", SP>>,
     <<"en", SP, "date", SP, "du", SP, "1", "/", "1", "/", "2", "0", NL,
       "fait", SP, "à", SP, SP, SP, NL, "le", SP>>}

\* texts with a date, texts without
DateTexts ==
    {intro \o date : intro \in DateIntros, date \in DateStrings}
        \cup {<<>>, <<"texte">>, <<"devis", SP, "texte">>, <<"1", "5", "/", "0", "9">>,
              <<"mars">>, <<"cctp", NL, "1", "5", "/", "0", "9", "/">>}

InitMeta ==
    /\ \/ pc = "normalize_date" /\ sample \in DateStrings
       \/ pc = "extract_main_date" /\ sample \in DateTexts
       \/ pc = "extract_document_metadata" /\ sample \in DateTexts
    /\ sample_type = None /\ extracted = Pending
    /\ raw = <<>> /\ normalized = <<>> /\ renormalized = <<>>
    /\ req = NoRequest /\ std = NoFrame /\ tab = NoFrame /\ tbl = NoFrame
    /\ result = Pending
    /\ content = <<>> /\ quality = Pending /\ label = None
    /\ doc = NoDocument /\ clock = 0 /\ ids = <<>>
    /\ ApiIdle /\ OverlapIdle
    /\ ThemeIdle /\ ConcIdle

NormalizeDate ==
    /\ pc = "normalize_date"
    /\ extracted' = normalize_date(sample)
    /\ pc' = "date_normalized"
    /\ UNCHANGED <<raw, normalized, renormalized, chunkVars, scoreVars, docVars, apiVars,
                   sample, sample_type, overlapVars, themeVars, concVars>>

ExtractMainDate ==
    /\ pc = "extract_main_date"
    /\ extracted' = extract_main_date(sample, clock)
    /\ pc' = "main_date_extracted"
    /\ UNCHANGED <<raw, normalized, renormalized, chunkVars, scoreVars, docVars, apiVars,
                   sample, sample_type, overlapVars, themeVars, concVars>>

ExtractDocumentMetadata ==
    /\ pc = "extract_document_metadata"
    /\ extracted' = extract_document_metadata(sample, clock, TRUE)
    /\ pc' = "metadata_extracted"
    /\ UNCHANGED <<raw, normalized, renormalized, chunkVars, scoreVars, docVars, apiVars,
                   sample, sample_type, overlapVars, themeVars, concVars>>

NextMeta == NormalizeDate \/ ExtractMainDate \/ ExtractDocumentMetadata

SpecMeta == InitMeta /\ [][NextMeta]_vars

-----------------------------------------------------------------------------
(* SpecOverlap: get_semantic_overlap applied to the words of a chunk         *)

MaxChunkWords == 4
MaxSeedSize == 3

\* words as str.split() yields them: without white space
OverlapWords == {<<"texte">>, <<"texte", ".">>, <<"M", ".">>, <<"le">>}

InitOverlap ==
    /\ pc = "overlap"
    /\ seed_chunk \in SeqsUpTo(OverlapWords, MaxChunkWords)
    /\ seed_size \in 0..MaxSeedSize
    /\ seed = <<>>
    /\ raw = <<>> /\ normalized = <<>> /\ renormalized = <<>>
    /\ req = NoRequest /\ std = NoFrame /\ tab = NoFrame /\ tbl = NoFrame
    /\ result = Pending
    /\ content = <<>> /\ quality = Pending /\ label = None
    /\ doc = NoDocument /\ clock = 0 /\ ids = <<>>
    /\ ApiIdle /\ MetaIdle
    /\ ThemeIdle /\ ConcIdle

GetSemanticOverlap ==
    /\ pc = "overlap"
    /\ seed' = get_semantic_overlap(seed_chunk, seed_size)
    /\ pc' = "seeded"
    /\ UNCHANGED <<raw, normalized, renormalized, chunkVars, scoreVars, docVars, apiVars,
                   metaVars, seed_chunk, seed_size, themeVars, concVars>>

NextOverlap == GetSemanticOverlap

SpecOverlap == InitOverlap /\ [][NextOverlap]_vars

-----------------------------------------------------------------------------
(* SpecParties: extract_parties applied to a text sample and a document type *)

MaxNameLen == 82

Run(c, n) == [k \in 1..n |-> c]

NameLengths == {0, 5, 11, MaxPartyLen, MaxPartyLen + 1, MaxNameLen}

\* letters only; one letter and digits; a comma after the third character
PartyNames ==
    {Run("A", n) : n \in NameLengths}
        \cup {<<"A">> \o Run("5", n) : n \in NameLengths}
        \cup {<<"A", "5", SP, ",">> \o Run("5", n) : n \in NameLengths}

PartyIntros ==
    {<<>>,
     <<"r","é","s","e","r","v","a","t","a","i","r","e", SP>>,
     <<"R","e","s","e","r","v","a","n","t", ":", SP>>,
     <<"e","n","t","r","e","p","r","e","n","e","u","r", SP, SP>>,
     <<"D","é","n","o","m","m","é","e", SP>>,
     <<"s","o","c","i","é","t","é", SP, "d","é","n","o","m","m","é","e", SP>>,
     <<"d","é","n","o","m","m","é", SP, "«">>}

PartyEnds == {<<>>, <<"»">>, <<SP, "a", "u", SP, "c", "a", "p", "i", "t", "a", "l">>,
              <<NL, "A", "A", "A", "A", "A", "A", "A", "A", "A", "A", "A", "A">>}

PartyTexts == {intro \o name \o end : intro \in PartyIntros, name \in PartyNames, end \in PartyEnds}

DocumentTypes == {"contrat_reservation_vefa", "cctp", "devis", "contrat_general"}

InitParties ==
    /\ pc = "extract_parties"
    /\ sample \in PartyTexts
    /\ sample_type \in DocumentTypes
    /\ extracted = Pending
    /\ raw = <<>> /\ normalized = <<>> /\ renormalized = <<>>
    /\ req = NoRequest /\ std = NoFrame /\ tab = NoFrame /\ tbl = NoFrame
    /\ result = Pending
    /\ content = <<>> /\ quality = Pending /\ label = None
    /\ doc = NoDocument /\ clock = 0 /\ ids = <<>>
    /\ ApiIdle /\ OverlapIdle
    /\ ThemeIdle /\ ConcIdle

ExtractParties ==
    /\ pc = "extract_parties"
    /\ extracted' = Return(extract_parties(sample, sample_type))
    /\ pc' = "parties_extracted"
    /\ UNCHANGED <<raw, normalized, renormalized, chunkVars, scoreVars, docVars, apiVars,
                   sample, sample_type, overlapVars, themeVars, concVars>>

NextParties == ExtractParties

SpecParties == InitParties /\ [][NextParties]_vars

-----------------------------------------------------------------------------
(* SpecTheme: calculate_theme_consistency applied to two contents            *)

\* keywords of the five themes, three of the first
ThemeWords == <<"contrat", "clause", "obligation", "prix", "délai", "travaux", "garantie">>

ThemeContents ==
    {Sentence(SelectSeq(ThemeWords, LAMBDA w : w \in chosen)) :
         chosen \in SUBSET {ThemeWords[k] : k \in 1..Len(ThemeWords)}}

InitTheme ==
    /\ pc = "theme_consistency"
    /\ pair \in ThemeContents \X ThemeContents
    /\ consistency = <<>>
    /\ raw = <<>> /\ normalized = <<>> /\ renormalized = <<>>
    /\ req = NoRequest /\ std = NoFrame /\ tab = NoFrame /\ tbl = NoFrame
    /\ result = Pending
    /\ content = <<>> /\ quality = Pending /\ label = None
    /\ doc = NoDocument /\ clock = 0 /\ ids = <<>>
    /\ ApiIdle /\ MetaIdle /\ OverlapIdle /\ ConcIdle

CalculateThemeConsistency ==
    /\ pc = "theme_consistency"
    /\ consistency' = <<calculate_theme_consistency(pair[1]), calculate_theme_consistency(pair[2])>>
    /\ pc' = "themes_scored"
    /\ UNCHANGED <<raw, normalized, renormalized, chunkVars, scoreVars, docVars, apiVars,
                   metaVars, overlapVars, pair, concVars>>

NextTheme == CalculateThemeConsistency

SpecTheme == InitTheme /\ [][NextTheme]_vars

-----------------------------------------------------------------------------
(* SpecConcurrent: two calls of create_smart_chunks on the singleton         *)
(* chunking_service, their loop iterations interleaved.  A call has its      *)
(* arguments, its position and its result; the locals of its activations     *)
(* (those of chunk_standard_content, chunk_table_content and                 *)
(* chunk_with_table_handling) are in the frame of the call.                  *)

Callers == {1, 2}

\* the fields __init__ sets on the singleton, the registry of the metadata
\* extractor by the names of its types
ServiceFields ==
    [real_estate_terms |-> real_estate_terms,
     metadata_extractor |->
         [document_patterns |-> [k \in 1..Len(document_patterns) |-> document_patterns[k].name]]]

NoLocals == [std |-> NoFrame, tab |-> NoFrame, tbl |-> NoFrame]

\* where the locals of the caller live if the accumulators are attributes of
\* the singleton: one frame for every call
SharedFrame(caller) == 1

\* where the locals of the caller live: in the activation of its own call
FrameOf(caller) == caller

Moved(c, f) == [call |-> c, frame |-> f]

\* create_smart_chunks up to the entry of the builder it selects
EnterCall(c, f) ==
    LET text == preprocess_text(c.req.text)
    IN  IF detect_special_structures(text).has_tables
        THEN Moved([c EXCEPT !.pc = "tbl_loop"],
                   [f EXCEPT !.tbl = TblEnter(text, calculate_adaptive_size(text, c.req.target_size),
                                              c.req.overlap, c.req.user_id, c.req.project_id)])
        ELSE Moved([c EXCEPT !.pc = "std_loop"],
                   [f EXCEPT !.std = StdEnter(text, calculate_adaptive_size(text, c.req.target_size),
                                              c.req.overlap, 1, c.req.user_id, c.req.project_id,
                                              "top")])

\* the end of a builder with the frame g and the chunks it returns: the
\* exception, the result of the call, or the return to chunk_with_table_handling
Leave(c, f, g) ==
    IF g.raised THEN Moved([c EXCEPT !.pc = "done", !.result = Raise(ZeroDivisionError)], f)
    ELSE IF g.caller = "top"
    THEN Moved([c EXCEPT !.pc = "done", !.result = Return(g.chunks)], f)
    ELSE Moved([c EXCEPT !.pc = "tbl_loop"], [f EXCEPT !.tbl = TblExtend(@, g.chunks)])

\* an iteration of a loop with the frame g it leaves
Iterated(c, f, g) ==
    IF g.raised THEN Moved([c EXCEPT !.pc = "done", !.result = Raise(ZeroDivisionError)], f)
    ELSE Moved(c, f)

\* one step of a call: the entry, one iteration of the loop it is in, or the
\* return from it
Advance(c, f) ==
    CASE c.pc = "call" -> EnterCall(c, f)
      [] c.pc = "std_loop" ->
           IF f.std.i <= Len(f.std.sentences)
           THEN Iterated(c, [f EXCEPT !.std = StdIterate(f.std)], StdIterate(f.std))
           ELSE Leave(c, [f EXCEPT !.std = StdFinish(f.std)], StdFinish(f.std))
      [] c.pc = "tab_loop" ->
           IF f.tab.i <= Len(f.tab.lines)
           THEN Iterated(c, [f EXCEPT !.tab = TabIterate(f.tab)], TabIterate(f.tab))
           ELSE Leave(c, [f EXCEPT !.tab = TabFinish(f.tab)], TabFinish(f.tab))
      [] c.pc = "tbl_loop" ->
           IF f.tbl.i > Len(f.tbl.sections)
           THEN Moved([c EXCEPT !.pc = "done", !.result = Return(f.tbl.chunks)], f)
           ELSE IF is_table_content(f.tbl.sections[f.tbl.i])
           THEN Moved([c EXCEPT !.pc = "tab_loop"],
                      [f EXCEPT !.tab = TabEnter(f.tbl.sections[f.tbl.i], f.tbl.chunk_id,
                                                 f.tbl.user_id, f.tbl.project_id, "tbl")])
           ELSE Moved([c EXCEPT !.pc = "std_loop"],
                      [f EXCEPT !.std = StdEnter(f.tbl.sections[f.tbl.i], f.tbl.target_size,
                                                 f.tbl.overlap, f.tbl.chunk_id, f.tbl.user_id,
                                                 f.tbl.project_id, "tbl")])

ConcTexts ==
    {Join(<<SP>>, <<s, <<"Cependant", SP, "texte", ".">>, s>>) :
         s \in {<<"texte", SP, "texte", ".">>, <<"M", ".", SP, "texte", ".">>}}
        \cup {Join(<<SP>>, [k \in 1..10 |-> <<"le">>]),
              Join(<<NL>>, <<<<"texte", SP, "texte", ".">>, HeaderRow, SeparatorRow, DataRow>>)}

ConcRequests ==
    {Request("create_smart_chunks", t, 3, 2, 1, u, "p1") : t \in ConcTexts, u \in Users}

InitConcurrent ==
    /\ pc = "serving"
    /\ calls \in [Callers -> {[req |-> r, pc |-> "call", result |-> Pending] : r \in ConcRequests}]
    /\ frames = [k \in Callers |-> NoLocals]
    /\ service = ServiceFields
    /\ raw = <<>> /\ normalized = <<>> /\ renormalized = <<>>
    /\ req = NoRequest /\ std = NoFrame /\ tab = NoFrame /\ tbl = NoFrame
    /\ result = Pending
    /\ content = <<>> /\ quality = Pending /\ label = None
    /\ doc = NoDocument /\ clock = 0 /\ ids = <<>>
    /\ ApiIdle /\ MetaIdle /\ OverlapIdle /\ ThemeIdle

\* one step of one of the calls
CallStep(caller) ==
    /\ calls[caller].pc # "done"
    /\ calls' = [calls EXCEPT ![caller] = Advance(@, frames[FrameOf(caller)]).call]
    /\ frames' = [frames EXCEPT ![FrameOf(caller)] =
                      Advance(calls[caller], frames[FrameOf(caller)]).frame]
    /\ UNCHANGED <<pc, raw, normalized, renormalized, chunkVars, scoreVars, docVars, apiVars,
                   metaVars, overlapVars, themeVars, service>>

NextConcurrent == \E caller \in Callers : CallStep(caller)

SpecConcurrent == InitConcurrent /\ [][NextConcurrent]_vars

-----------------------------------------------------------------------------
(* Claims *)

Returned(entries) == pc = "done" /\ req.entry \in entries /\ ~result.raised

\* C1: the chunks chunk_standard_content and chunk_with_table_handling return
\* carry strictly increasing chunk ids, the first one being the start offset,
\* also across the boundary between a table section and a standard section
C1_MonotonicChunkId ==
    Returned({"chunk_standard_content", "chunk_with_table_handling"}) =>
        /\ result.value # <<>> => result.value[1].metadata.position = req.start_id
        /\ \A k \in 1..(Len(result.value) - 1) :
               result.value[k].metadata.position < result.value[k + 1].metadata.position
        /\ \A k \in 1..Len(result.value) :
               result.value[k].content.chunk_id = ChunkLabel(result.value[k].metadata.position)

\* a chunk of a table section (chunk_table_content leaves its userId unset)
\* directly followed by a chunk of a standard section, in a result that also
\* holds a chunk of plain text
C1_AcrossSections ==
    /\ Returned({"chunk_with_table_handling"})
    /\ \E k \in 1..(Len(result.value) - 1) :
           /\ HasPipe(result.value[k].content.text) /\ result.value[k].userId = None
           /\ result.value[k + 1].userId = req.user_id
    /\ \E k \in 1..Len(result.value) : ~HasPipe(result.value[k].content.text)

FactorInRange(x) == x >= 0 /\ x <= Unit

\* C2: for any content analyze_quality yields a score in [0,1]: the six factors
\* are in [0,1], the weights sum to 1.0, the weighted sum is clamped and rounded
C2_ScoreInRange ==
    pc = "scored" =>
        /\ ~quality.raised
        /\ quality.value \in 0..1000
        /\ ~QualityFactors(content).coherence.raised
        /\ FactorInRange(QualityFactors(content).coherence.value)
        /\ FactorInRange(QualityFactors(content).length)
        /\ FactorInRange(QualityFactors(content).keyword)
        /\ FactorInRange(QualityFactors(content).entity)
        /\ FactorInRange(QualityFactors(content).structure)
        /\ FactorInRange(QualityFactors(content).specificity)
        /\ QualityWeights.length + QualityWeights.keyword + QualityWeights.entity
           + QualityWeights.structure + QualityWeights.coherence
           + QualityWeights.specificity = 100

\* C3: create_smart_chunks returns a list of chunks for every text, target size
\* and overlap, and never raises
C3_Total == (pc = "done" /\ req.entry = "create_smart_chunks") => ~result.raised

ChunkTexts(chunks) == [k \in 1..Len(chunks) |-> chunks[k].content.text]

\* C4: on the standard path with overlap 0 the chunk contents, put together in
\* order with the single spaces between them, are the normalized input text
C4_Reconstruction ==
    (Returned({"chunk_standard_content"}) /\ req.overlap = 0) =>
        Join(<<SP>>, ChunkTexts(result.value)) = req.text

\* C5: normalizing already-normalized text is a no-op
C5_Idempotent == pc = "twice" => renormalized = normalized

\* the sentence begins with a connector, with or without punctuation attached
BeginsWithConnector(sentence) ==
    /\ Strip(sentence) # <<>>
    /\ Lower(Strip(sentence)[1]) \in conjunctions
    /\ Len(Strip(sentence)) > 1 => Strip(sentence)[2] \in {SP, NL, NBSP, ",", ";", ":", "."}

\* C6: chunk_standard_content never closes a chunk immediately before a
\* sentence that begins with a connector, whatever the target size
C6_NoSplitBeforeConnector ==
    [][(/\ pc = "std_loop"
        /\ std.i <= Len(std.sentences)
        /\ BeginsWithConnector(std.sentences[std.i]))
       => Len(std'.chunks) = Len(std.chunks)]_vars

BeginsWith(t, prefix) == Len(t) >= Len(prefix) /\ SubSeq(t, 1, Len(prefix)) = prefix

\* C7: for a header row, a separator row and 7 data rows chunk_table_content
\* emits exactly 2 chunks, each beginning with the header row
C7_TwoChunks ==
    (Returned({"chunk_table_content"}) /\ req.text = TableBlock(SeparatorRow, 7)) =>
        /\ Len(result.value) = 2
        /\ \A k \in 1..Len(result.value) : BeginsWith(result.value[k].content.text, HeaderRow)

\* C8: every chunk chunk_standard_content or chunk_with_table_handling returns
\* carries the user_id and the project_id of the call
C8_PassThrough ==
    Returned({"chunk_standard_content", "chunk_with_table_handling"}) =>
        \A k \in 1..Len(result.value) :
            /\ result.value[k].userId = req.user_id
            /\ result.value[k].projectId = req.project_id

\* C9: two calls of generate_document_id with the same text, title and date
\* return the same id, at whatever times they are made
C9_Deterministic == \A i \in 1..Len(ids), j \in 1..Len(ids) : ids[i] = ids[j]

\* the date is DD/MM/YYYY and a day of the calendar
IsCalendarDate(date) ==
    /\ Len(SplitSlash(date)) = 3
    /\ Len(SplitSlash(date)[1]) = 2 /\ Len(SplitSlash(date)[2]) = 2
    /\ Len(SplitSlash(date)[3]) = 4
    /\ ~DateFromFields(SplitSlash(date)).raised

\* YYYYMMDD of the date, then 120000
NoonOf(date) ==
    SplitSlash(date)[3] \o SplitSlash(date)[2] \o SplitSlash(date)[1]
    \o <<"1", "2", "0", "0", "0", "0">>

\* C10: an id is 17 characters, 14 decimal digits then 3 uppercase hexadecimal
\* characters; for a valid DD/MM/YYYY date the digits are that date at 12:00:00
C10_Format ==
    \A k \in 1..Len(ids) :
        /\ Len(ids[k]) = 17
        /\ \A n \in 1..14 : IsDecimalChar(ids[k][n])
        /\ \A n \in 15..17 : \E h \in 1..Len(HexChars) : HexChars[h] = ids[k][n]
        /\ IsCalendarDate(doc.date) => SubSeq(ids[k], 1, 14) = NoonOf(doc.date)

\* a request the endpoint has answered and that passes the validation of the
\* text and of the two options
ValidRequest ==
    /\ pc = "answered"
    /\ CharCount(Strip(http.extractedText)) >= MinTextLength
    /\ CheckOptions(OptionGet(http.options, "target_chunk_size", DefaultTargetChunkSize),
                    OptionGet(http.options, "overlap_size", DefaultOverlapSize)) = NoResponse

\* C11: a request with a trimmed text of at least 100 characters, a
\* target_chunk_size in [20,200] and an overlap_size in [0,50] is answered 200
\* with success = true and the chunks create_smart_chunks produced, each
\* readable as chunk['metadata']['quality_score']; it is never answered 500
C11_ValidRequestSucceeds ==
    ValidRequest =>
        /\ response.status_code = 200
        /\ response.content.success
        /\ ~result.raised /\ response.content.chunks = result.value
        /\ \A k \in 1..Len(result.value) :
               /\ "metadata" \in DOMAIN result.value[k]
               /\ "quality_score" \in DOMAIN result.value[k].metadata

\* C12: a request whose trimmed text is empty or shorter than 100 characters,
\* or whose integer target_chunk_size is outside [20,200], or whose integer
\* overlap_size is outside [0,50], is rejected with status 400 before
\* create_smart_chunks is called; the 400 never becomes a 500
C12_InvalidRequestRejected ==
    (/\ pc = "answered"
     /\ \/ CharCount(Strip(http.extractedText)) < MinTextLength
        \/ /\ http.options.target_chunk_size.kind = "int"
           /\ ~(MinTargetChunkSize <= http.options.target_chunk_size.value
                /\ http.options.target_chunk_size.value <= MaxTargetChunkSize)
        \/ /\ http.options.overlap_size.kind = "int"
           /\ ~(MinOverlapSize <= http.options.overlap_size.value
                /\ http.options.overlap_size.value <= MaxOverlapSize)) =>
        response.status_code = 400 /\ req = NoRequest

\* twenty times the weighted score of each category for a content
ScoresOf(t) == [k \in 1..Len(weighted_categories) |-> CategoryScore(t, weighted_categories[k])]

\* no keyword and no pattern of any category occurs in the content
NothingRecognized(t) ==
    \A k \in 1..Len(weighted_categories) :
        /\ \A w \in weighted_categories[k].keywords : ~Contains(t, w)
        /\ PatternScore(t, weighted_categories[k]) = 0

\* the answer the claim prescribes for a vector of scores
Prescribed(answer, scores) ==
    IF \A k \in 1..Len(scores) : scores[k] < ConfidenceThreshold
    THEN answer = "general"
    ELSE \E k \in 1..Len(scores) :
             /\ answer = weighted_categories[k].name
             /\ \A j \in 1..Len(scores) : scores[j] <= scores[k]
             /\ \A j \in 1..(k - 1) : scores[j] < scores[k]

\* C13: classify_content returns general when the content holds no keyword and
\* no pattern of any category, and whenever the largest weighted score is
\* below the floor 1.5; otherwise it returns a category whose score is the
\* largest, the first one in the order of the registry when several are
C13_FallbackAndTieBreak ==
    pc = "classified" =>
        /\ NothingRecognized(content) => label = "general"
        /\ Prescribed(label, ScoresOf(content))

TiedAtTop(scores) ==
    \E j, k \in 1..Len(scores) :
        /\ j < k /\ scores[j] = scores[k] /\ scores[k] >= ConfidenceThreshold
        /\ \A i \in 1..Len(scores) : scores[i] <= scores[k]

\* a content two categories score equally and highest, classified as the first
C13_TieClassified ==
    pc = "classified" /\ TiedAtTop(ScoresOf(content)) /\ label # "general"

\* C14: every chunk create_chunk builds carries the vector of the secondary
\* scorer, with an entry for each of its 11 categories, whatever its
\* content_type
C14_ClassificationScoresAttached ==
    (pc = "done" /\ ~result.raised) =>
        \A k \in 1..Len(result.value) :
            /\ "classification_scores" \in DOMAIN result.value[k].metadata
            /\ result.value[k].metadata.classification_scores
                   = get_classification_scores(result.value[k].content.text)

\* the type the claim prescribes: 3 for each hit of a title pattern (and 2 for
\* each party pattern present, none over the alphabet), the highest score
\* winning and contrat_general when no type scores above 0
PrescribedType(t) ==
    BestType([k \in 1..Len(document_patterns) |-> TitleScore(t, document_patterns[k].title_patterns)])

\* C15: for every text extract_document_metadata returns, without raising, a
\* record with the seven fields id, title, date, type, parties, location and
\* project, whose type is the document type with the highest score and
\* contrat_general when no type scores above 0
C15_MetadataRecord ==
    pc = "metadata_extracted" =>
        /\ ~extracted.raised
        /\ DOMAIN extracted.value
               = {"id", "title", "date", "type", "parties", "location", "project"}
        /\ extracted.value.type = PrescribedType(sample)

\* the year the claim prescribes for a year of two digits
PrescribedYear(yy) ==
    (IF ParseInt(yy).value < 50 THEN <<"2", "0">> ELSE <<"1", "9">>) \o yy

\* C16: normalize_date turns a year yy of two digits into 20yy when yy < 50 and
\* into 19yy otherwise, for a date whose month is a French name as for a date
\* that is numeric
C16_TwoDigitYear ==
    (pc = "date_normalized" /\ CharCount(SplitParts(sample)[3]) = 2) =>
        /\ ~extracted.raised
        /\ SplitSlash(extracted.value)[3] = PrescribedYear(SplitParts(sample)[3])

\* two digits, a slash, two digits, a slash, four digits
IsDDMMYYYY(s) ==
    /\ Len(s) = 10
    /\ s[3] = "/" /\ s[6] = "/"
    /\ \A k \in {1, 2, 4, 5, 7, 8, 9, 10} : IsDecimalChar(s[k])

\* C17: extract_main_date returns a string of the shape DD/MM/YYYY whatever
\* date it matched, a year of 2, 3 or 4 digits included, and the current date
\* in that shape when the text holds no date
C17_DateShape ==
    pc = "main_date_extracted" =>
        /\ ~extracted.raised
        /\ IsDDMMYYYY(extracted.value)
        /\ (\A i \in 1..Len(sample) : DatePatternEnd(sample, i, TRUE, TRUE, TRUE) = 0)
               => extracted.value = StrfDate(Now(clock))

\* C18: the output of preprocess_text holds no two adjacent spaces, neither
\* begins nor ends with a space and holds no non-breaking or zero-width
\* space; the empty string yields the empty string
C18_WhitespaceNormalized ==
    pc # "start" =>
        /\ \A i \in 1..(Len(normalized) - 1) : ~(normalized[i] = SP /\ normalized[i + 1] = SP)
        /\ normalized # <<>> => normalized[1] # SP /\ normalized[Len(normalized)] # SP
        /\ \A i \in 1..Len(normalized) : normalized[i] \notin {NBSP, ZWSP}
        /\ raw = <<>> => normalized = <<>>

\* the frame g is the frame f with the current chunk of f emitted
Emitted(f, g) ==
    /\ Len(g.chunks) = Len(f.chunks) + 1
    /\ SubSeq(g.chunks, 1, Len(f.chunks)) = f.chunks
    /\ g.chunks[Len(g.chunks)].content.text = Join(<<SP>>, f.current_chunk)

\* the step the claim prescribes for the sentence s
SentenceRule(f, g, s) ==
    IF /\ f.current_word_count + Len(Split(s)) > f.target_size
       /\ f.current_chunk # <<>>
       /\ can_split_here(s, f.current_chunk)
    THEN Emitted(f, g) /\ LastN(g.current_chunk, Len(Split(s))) = Split(s)
    ELSE g.chunks = f.chunks /\ g.current_chunk = f.current_chunk \o Split(s)

\* C19: in chunk_standard_content each sentence closes and emits the current
\* chunk exactly when the words would exceed target_size, the current chunk
\* is not empty and can_split_here passes, and is appended to the current
\* chunk otherwise; after the last sentence a current chunk that is not empty
\* is emitted as the final chunk
C19_CloseExactlyWhen ==
    [][pc = "std_loop" =>
          IF std.i <= Len(std.sentences)
          THEN SentenceRule(std, std', std.sentences[std.i])
          ELSE (std.current_chunk # <<>> => Emitted(std, std'))]_vars

EndsSentence(word) == word[Len(word)] \in {".", "!", "?"}

\* the words of the trailing sentence of a chunk: those after the last word,
\* the final one apart, that ends a sentence
TrailingSentence(chunk) ==
    SubSeq(chunk,
           CHOOSE k \in 1..Len(chunk) :
               /\ k = 1 \/ EndsSentence(chunk[k - 1])
               /\ \A j \in k..(Len(chunk) - 1) : ~EndsSentence(chunk[j]),
           Len(chunk))

\* C20: get_semantic_overlap(chunk, n) returns the empty list when n = 0 or the
\* chunk is empty; otherwise the words of the trailing sentence of the chunk
\* when it has at most n words, and else the last n words of the chunk (the
\* whole chunk when it has fewer than n words)
C20_OverlapSeed ==
    pc = "seeded" =>
        IF seed_size = 0 \/ seed_chunk = <<>> THEN seed = <<>>
        ELSE IF Len(TrailingSentence(seed_chunk)) <= seed_size
        THEN seed = TrailingSentence(seed_chunk)
        ELSE IF Len(seed_chunk) < seed_size THEN seed = seed_chunk
        ELSE seed = SubSeq(seed_chunk, Len(seed_chunk) - seed_size + 1, Len(seed_chunk))

\* a seed that is the trailing sentence and shorter than the n words allowed,
\* in a chunk that holds n words
C20_SentenceSeed ==
    /\ pc = "seeded" /\ seed # <<>>
    /\ Len(seed) < seed_size /\ seed_size <= Len(seed_chunk)

\* a letter after position i with ten characters or more after it, all on
\* the line of position i
NamedAfter(t, i) ==
    \E j \in i..Len(t) :
        /\ LowerChar(t[j]) \in AsciiLetters
        /\ j + 10 <= Len(t)
        /\ \A q \in i..(j + 10) : t[q] # NL

\* the word réservataire (or reservataire), in either case, with a name after it
ReservataireNamed(t) ==
    \E i \in 1..Len(t) :
        /\ i + 11 <= Len(t)
        /\ [k \in 1..12 |-> LowerChar(t[i + k - 1])]
               \in {<<"r", e, "s", "e", "r", "v", "a", "t", "a", "i", "r", "e">> : e \in {"e", "é"}}
        /\ NamedAfter(t, i + 12)

\* C21: every value of the mapping extract_parties returns has at most 80
\* characters, and for the type contrat_reservation_vefa the mapping has the
\* key reservataire, set to [Réservataire] when no pattern of the reservataire
\* matched
C21_PartiesBounded ==
    pc = "parties_extracted" =>
        /\ \A k \in 1..Len(extracted.value) : Len(extracted.value[k].name) <= 80
        /\ sample_type = "contrat_reservation_vefa" =>
               /\ \E k \in 1..Len(extracted.value) : extracted.value[k].role = "reservataire"
               /\ ~ReservataireNamed(sample) =>
                      \E k \in 1..Len(extracted.value) :
                          /\ extracted.value[k].role = "reservataire"
                          /\ extracted.value[k].name
                                 = <<"[", "R", "é", "s", "e", "r", "v", "a", "t", "a", "i", "r", "e", "]">>

\* a reservation contract whose reservant has a name cut to 80 characters and
\* whose reservataire is the placeholder
C21_CutAndDefault ==
    /\ pc = "parties_extracted" /\ sample_type = "contrat_reservation_vefa"
    /\ Len(sample) > 90
    /\ \E k \in 1..Len(extracted.value) :
           extracted.value[k].role = "reservant" /\ Len(extracted.value[k].name) = 80
    /\ \E k \in 1..Len(extracted.value) :
           extracted.value[k].role = "reservataire" /\ Len(extracted.value[k].name) = 14

\* a bare date, with the name of a month or numeric, stands at i
BareDateAt(t, i) ==
    DatePatternEnd(t, i, TRUE, FALSE, TRUE) # 0 \/ DatePatternEnd(t, i, FALSE, TRUE, FALSE) # 0

\* the bare date at the earliest position of the sample
EarliestBareDate(t) ==
    LET i == CHOOSE i \in 1..Len(t) : BareDateAt(t, i) /\ \A k \in 1..(i - 1) : ~BareDateAt(t, k)
    IN  SubSeq(t, i, (IF DatePatternEnd(t, i, TRUE, FALSE, TRUE) # 0
                      THEN DatePatternEnd(t, i, TRUE, FALSE, TRUE)
                      ELSE DatePatternEnd(t, i, FALSE, TRUE, FALSE)) - 1)

\* the date group of the contextual pattern of highest priority that matches:
\* signé le, fait à ... le, en date du, établi le
ContextualDate(t) ==
    IF \E i \in 1..Len(t) : PriorityMatches(t, i, <<{"signé", "signe"}, {"le"}>>)
    THEN <<PriorityGroup(t, <<{"signé", "signe"}, {"le"}>>)>>
    ELSE IF \E i \in 1..Len(t) : FaitMatches(t, i) THEN <<FaitGroup(t)>>
    ELSE IF \E i \in 1..Len(t) : PriorityMatches(t, i, <<{"en"}, {"date"}, {"du"}>>)
    THEN <<PriorityGroup(t, <<{"en"}, {"date"}, {"du"}>>)>>
    ELSE IF \E i \in 1..Len(t) : PriorityMatches(t, i, <<{"établi"}, {"le"}>>)
    THEN <<PriorityGroup(t, <<{"établi"}, {"le"}>>)>>
    ELSE <<>>

\* C22: extract_main_date returns the date of the contextual pattern of highest
\* priority that matches; when none of the four matches, it returns the
\* normalization of the bare date at the earliest position of the sample,
\* written with the name of a month or numerically
C22_MainDateChoice ==
    pc = "main_date_extracted" =>
        IF ContextualDate(sample) # <<>>
        THEN extracted = normalize_date(ContextualDate(sample)[1])
        ELSE (\E i \in 1..Len(sample) : BareDateAt(sample, i))
                 => extracted = normalize_date(EarliestBareDate(sample))

\* the number of keywords of each theme that occur in the content
ThemeHits(t) ==
    [k \in 1..Len(themes) |-> Cardinality({w \in themes[k] : \E i \in 1..Len(t) : t[i] = w})]

\* the hits of the dominant theme, and of all themes
DominantHits(t) == CHOOSE m \in 0..Len(t) : (\E k \in 1..Len(themes) : ThemeHits(t)[k] = m)
                                             /\ \A k \in 1..Len(themes) : ThemeHits(t)[k] <= m
TotalHits(t) == SumSeq(ThemeHits(t))

\* the share of the dominant theme lies in [0.3, 0.7]
InBand(t) == 3 * TotalHits(t) <= 10 * DominantHits(t) /\ 10 * DominantHits(t) <= 7 * TotalHits(t)

\* |d - 0.5| for the share d of the content t, times 2 * TotalHits(t)
OffCentre(t) == Abs(2 * DominantHits(t) - TotalHits(t))

\* C23: with shares d1 and d2 of the dominant theme in [0.3, 0.7] and d1
\* nearer to 0.5 than d2, calculate_theme_consistency scores the first content
\* strictly higher; outside the band the score is 0.8 - |d - 0.5|, at least
\* 0.3; without any theme hit it is 0.5
C23_ProximityRewarded ==
    pc = "themes_scored" =>
        /\ \A a, b \in {1, 2} :
               /\ TotalHits(pair[a]) > 0 /\ TotalHits(pair[b]) > 0
               /\ InBand(pair[a]) /\ InBand(pair[b])
               /\ OffCentre(pair[a]) * TotalHits(pair[b]) < OffCentre(pair[b]) * TotalHits(pair[a])
               => consistency[a] > consistency[b]
        /\ \A a \in {1, 2} :
               IF TotalHits(pair[a]) = 0 THEN consistency[a] = Unit \div 2
               ELSE ~InBand(pair[a]) =>
                        Abs(consistency[a]
                                - Max((3 * Unit) \div 10,
                                      (8 * Unit) \div 10
                                          - (OffCentre(pair[a]) * Unit) \div (2 * TotalHits(pair[a]))))
                            <= 1

RECURSIVE RunAlone(_, _)
\* the call run from the entry to its end with nothing else running
RunAlone(c, f) ==
    IF c.pc = "done" THEN c.result ELSE RunAlone(Advance(c, f).call, Advance(c, f).frame)

\* C24: no call of create_smart_chunks modifies a field of the singleton, and
\* in every interleaving of two calls each returns what it returns when run
\* alone on the same arguments
C24_CallsIndependent ==
    /\ service = ServiceFields
    /\ \A caller \in Callers :
           calls[caller].pc = "done" =>
               calls[caller].result
                   = RunAlone([req |-> calls[caller].req, pc |-> "call", result |-> Pending], NoLocals)

\* both calls ended, on different texts, each with two chunks or more that
\* differ from the chunks of the other
C24_Interleaved ==
    /\ \A caller \in Callers :
           /\ calls[caller].pc = "done" /\ ~calls[caller].result.raised
           /\ Len(calls[caller].result.value) >= 2
    /\ calls[1].req.text # calls[2].req.text
    /\ frames[1].std.chunks # frames[2].std.chunks

\* the loop of chunk_standard_content is at a sentence for which it calls
\* can_split_here with a current chunk that is not empty
SplitEvaluated ==
    /\ pc = "std_loop" /\ std.i <= Len(std.sentences)
    /\ Strip(std.sentences[std.i]) # <<>>
    /\ std.current_word_count + Len(Split(std.sentences[std.i])) > std.target_size
    /\ std.current_chunk # <<>>

LastWord(words) == words[Len(words)]

\* the first word of the sentence, lowered, is a conjunction
FirstWordIsConjunction(sentence) ==
    \E c \in conjunctions : LowerWord(Split(sentence)[1]) = <<c>>

\* C25: whenever chunk_standard_content evaluates can_split_here with a current
\* chunk that is not empty, the last word of the chunk ends with '.', '!' or
\* '?', so the split is refused exactly when the first word of the next
\* sentence is a conjunction
C25_ChunkEndsSentence ==
    SplitEvaluated =>
        /\ LastWord(LastWord(std.current_chunk)) \in {".", "!", "?"}
        /\ can_split_here(std.sentences[std.i], std.current_chunk)
               <=> ~FirstWordIsConjunction(std.sentences[std.i])

\* the split evaluated with a semicolon or a colon among the last words of the
\* current chunk
C25_EnumerationInside ==
    /\ SplitEvaluated
    /\ \E k \in 1..Len(std.current_chunk) : LastWord(std.current_chunk[k]) \in {";", ":"}

\* the text chunk_with_table_handling was called with
TableHandlingText == IF req.entry = "create_smart_chunks" THEN normalized ELSE req.text

RECURSIVE Concat(_)
Concat(parts) == IF parts = <<>> THEN <<>> ELSE Head(parts) \o Concat(Tail(parts))

\* the characters of t that are not white space, in order
NonSpace(t) == SelectSeq(t, LAMBDA c : ~IsSpace(c))

\* C26: the sections split_by_tables returns are disjoint spans of the text in
\* the order of the text, and together they hold the content of the text that
\* is not white space exactly once, also when several rows of a table are on
\* one line
C26_SectionsPartition ==
    pc = "tbl_loop" /\ tbl.i = 1 /\ tbl.chunks = <<>> =>
        NonSpace(Concat(tbl.sections)) = NonSpace(TableHandlingText)

\* the word occurs in the content of one of the chunks
InSomeChunk(word, chunks) ==
    \E k \in 1..Len(chunks) :
        \E j \in 1..Len(Split(chunks[k].content.text)) : Split(chunks[k].content.text)[j] = word

\* C27: for a text with a word or more create_smart_chunks returns a chunk or
\* more, and every word of the normalized text is in the content of a chunk,
\* on the standard route and on the table-aware route (the rows of a table are
\* not dropped once preprocess_text has collapsed the line breaks)
C27_NoWordDropped ==
    pc = "done" /\ req.entry = "create_smart_chunks" /\ Split(normalized) # <<>> =>
        /\ ~result.raised
        /\ result.value # <<>>
        /\ \A j \in 1..Len(Split(normalized)) : InSomeChunk(Split(normalized)[j], result.value)

\* the last m words of the list
Suffix(lst, m) == SubSeq(lst, Len(lst) - m + 1, Len(lst))

\* the step of chunk_standard_content that closes a chunk and starts the next
ChunkClosed ==
    /\ pc = "std_loop" /\ std.i <= Len(std.sentences)
    /\ ~std'.raised /\ Len(std'.chunks) = Len(std.chunks) + 1

\* C28: the seed get_semantic_overlap returns for a closing chunk and a budget
\* n has at most n words and is a suffix of the words of the closing chunk, so
\* the chunk chunk_standard_content starts after it begins with at most n
\* words, all copied from the end of the chunk it has just emitted, and goes on
\* with the words of the sentence
C28_SeedFromPreviousEnd ==
    [][ChunkClosed =>
           LET previous == Split(std'.chunks[Len(std'.chunks)].content.text)
           IN  /\ previous = std.current_chunk
               /\ \E m \in 0..std.overlap :
                      /\ m <= Len(previous)
                      /\ std'.current_chunk =
                             Suffix(previous, m) \o Split(std.sentences[std.i])]_vars

\* a chunk after the first that starts with a seed of one word or more, the
\* seed being shorter than the chunk just emitted
C28_SeededChunk ==
    /\ pc = "std_loop" /\ std.chunks # <<>> /\ std.i > 1 /\ std.overlap > 0
    /\ LET previous == Split(std.chunks[Len(std.chunks)].content.text)
       IN  \E m \in 1..std.overlap :
               /\ m < Len(previous)
               /\ std.current_chunk = Suffix(previous, m) \o Split(std.sentences[std.i - 1])

\* the id of the first chunk: start_id, 1 when chunk_with_table_handling or
\* create_smart_chunks starts the numbering
Offset == IF req.entry = "chunk_standard_content" THEN req.start_id ELSE 1

\* 'chunk_' and the three digits of a number below 1000
ThreeDigits(n) == <<"chunk_", n \div 100, (n \div 10) % 10, n % 10>>

\* C29: in the output of chunk_standard_content and chunk_with_table_handling
\* the k-th chunk (k from 0) has position offset + k and the chunk_id 'chunk_'
\* with that number zero-padded to 3 digits: no gap, no repeat, and the last id
\* is offset + number of chunks - 1
C29_ConsecutiveIds ==
    Returned({"chunk_standard_content", "chunk_with_table_handling", "create_smart_chunks"}) =>
        \A k \in 1..Len(result.value) :
            /\ result.value[k].metadata.position = Offset + k - 1
            /\ result.value[k].content.chunk_id = ThreeDigits(Offset + k - 1)

\* chunk_with_table_handling returned two chunks of one table section, one
\* after the other, and a chunk of a standard section after them
C29_TableThenText ==
    /\ Returned({"chunk_with_table_handling"})
    /\ \E k \in 1..(Len(result.value) - 2) :
           /\ result.value[k].userId = None /\ result.value[k + 1].userId = None
           /\ Split(result.value[k].content.text)[1] = Split(result.value[k + 1].content.text)[1]
           /\ Len(SplitLines(result.value[k].content.text)) >= 4
           /\ \E j \in (k + 2)..Len(result.value) : result.value[j].userId = req.user_id

\* the words of the sentences the loop does not skip, sentence by sentence
SentenceWords(sentences) ==
    LET kept == SelectSeq(sentences, LAMBDA sentence : Strip(sentence) # <<>>)
    IN  [k \in 1..Len(kept) |-> Split(kept[k])]

\* the chunks from the k-th on are, each, at most n words of the end of the
\* chunk before (none for the first chunk) followed by one whole sentence or
\* more, and their sentences are those from position from on, in order
RECURSIVE SeedThenSentences(_, _, _, _, _)
SeedThenSentences(texts, words, n, k, from) ==
    IF k > Len(texts) THEN from = Len(words) + 1
    ELSE \E to \in from..Len(words) :
             /\ IF k = 1 THEN Split(texts[k]) = Concat(SubSeq(words, from, to))
                ELSE \E m \in 0..n :
                         /\ m <= Len(Split(texts[k - 1]))
                         /\ Split(texts[k]) = Suffix(Split(texts[k - 1]), m)
                                                  \o Concat(SubSeq(words, from, to))
             /\ SeedThenSentences(texts, words, n, k + 1, to + 1)

\* the call ran chunk_standard_content on the whole text
StandardRoute ==
    \/ req.entry = "chunk_standard_content"
    \/ req.entry = "create_smart_chunks" /\ ~HasPipe(normalized)

\* C30: chunk_standard_content emits chunks of one word or more and cuts no
\* sentence: each chunk is an overlap seed (empty for the first chunk) and one
\* whole sentence or more after it, and the sentences of the successive chunks
\* are the sentences of the text in order, each non-empty sentence in exactly
\* one chunk apart from the seeds
C30_WholeSentences ==
    pc = "done" /\ StandardRoute =>
        /\ ~result.raised
        /\ \A k \in 1..Len(result.value) : result.value[k].metadata.word_count >= 1
        /\ SeedThenSentences(ChunkTexts(result.value), SentenceWords(std.sentences),
                             req.overlap, 1, 1)


====
